---- MODULE Spec2Model ----
(***************************************************************************)
(* A model of the dependency engine of sane (src/sane.py): the registries  *)
(* filled by the decorators, graph building (update_graph), scheduling     *)
(* (get_toposort) and execution (run_tree) of one run request.             *)
(***************************************************************************)
EXTENDS Integers, Sequences, FiniteSets, TLC

----------------------------------------------------------------------------
(* Bounds of the model.                                                    *)

\* number of @depends / @tag decorators applied in the declaration stage
MaxDecorators == 3

\* number of parameters of a function handed to is_signature_compatible
MaxParams == 3

\* number of arguments handed to is_signature_compatible
MaxArgs == 4

\* number of calls of a decorated @cmd or @task made by the bodies of a run
MaxInvocations == 2

\* number of functions a script decorates with @cmd or @task
MaxDefs == 4

\* number of explicit calls of sane() a process makes
MaxSaneCalls == 2

----------------------------------------------------------------------------
(* The declared functions.  A unit is identified by its function object;   *)
(* the four functions below are the universe the decorators are applied to.*)

CmdFuncs == {"a", "k"}
TaskFuncs == {"b", "c"}
Funcs == CmdFuncs \cup TaskFuncs
TagNames == {"g"}

\* inspect.signature(func): number of parameters without / with a default
MandatoryArgCount(f) == IF f = "k" THEN 1 ELSE 0
OptionalArgCount(f) == 0

\* is_signature_compatible(func, args)
is_signature_compatible(f, args) ==
    LET wrong_number_of_args ==
            \/ Len(args) < MandatoryArgCount(f)
            \/ Len(args) > MandatoryArgCount(f) + OptionalArgCount(f)
    IN  ~wrong_number_of_args

\* the argument tuples that appear in @depends(on_cmd=..., args=...) and in
\* requests
ArgTuples == {<<>>, <<"x">>, <<"y">>}

\* a Node of the graph: the pair (func, args) used as key of self.incidence
Nodes == Funcs \X ArgTuples

None == "None"

VARIABLES
    cmds,        \* self.cmds: name -> func
    tasks,       \* self.tasks: name -> list of funcs
    tags,        \* self.tags: tag -> list of funcs
    depends,     \* func.__sane__['depends'] of every function
    incidence,   \* self.incidence: Node -> count
    thread_exe,  \* self.thread_exe: None or a pool
    jobs,        \* the value given with --jobs on the command line, if any
    verbose,     \* self.verbose
    pc,          \* position of the request in run_tree
    request,     \* the (func, args) run_tree was called with
    stack,       \* update_graph: stack
    visiting,    \* update_graph: visiting
    expanded,    \* history: the items update_graph has expanded, in order
    toposort,    \* run_tree: toposort (list of waves)
    wave,        \* run_tree: index of the slice_ being run
    pos,         \* run_tree: index inside slice_
    func,        \* run_tree: the local variables func, args
    future,      \* run_tree: the future being waited on (pool mode)
    inflight,    \* operations submitted to the pool and not finished
    outcome,     \* state of the operation being run: idle/ running / ok / raised
    started,     \* history: Nodes in the order their operation was called
    passed,      \* history: the positional arguments of each call
    completed,   \* history: Nodes whose operation returned, in order
    exit_code,   \* status passed to sys.exit, or None
    error,       \* which error was printed
    reported,    \* what the error message names
    signature,   \* is_signature_compatible: the parameters of func
    sig_args,    \* is_signature_compatible: args
    compatible,  \* is_signature_compatible: what it returned, if it has
    frames,      \* the run_tree calls suspended in a body that called a unit
    invoked,     \* number of calls of a unit made by bodies so far
    graphs,      \* history: (request, incidence) at each return of update_graph
    defs,        \* history: the @cmd / @task declarations made, in order
    finalized,   \* self.finalized
    magic,       \* self.magic
    operation,   \* self.operation
    sane_calls,  \* number of calls of main so far (sane() or atexit)
    mains,       \* history: the calls of main that went past its guard
    default,     \* self.default: the @cmd that carries @default, if any
    listed,      \* what list_cmds has printed: the names, as a set
    conditions,  \* what the condition predicates of each Node evaluate to
    skipped      \* history: the Nodes skipped as inactive, in order

declVars == <<cmds, tasks, tags, depends>>
engineVars == <<incidence, thread_exe, verbose, jobs>>
buildVars == <<stack, visiting, expanded>>
execVars == <<toposort, wave, pos, func, future, inflight, outcome>>
histVars == <<started, passed, completed>>
exitVars == <<exit_code, error, reported>>
sigVars == <<signature, sig_args, compatible>>

invokeVars == <<frames, invoked>>
stageVars == <<defs, finalized, magic, operation, sane_calls, mains, default,
              listed>>
condVars == <<conditions, skipped>>

\* the state that the steps of one run_tree call leave alone (graphs is
\* extended when update_graph returns)
outsideVars == <<sigVars, invokeVars, graphs, stageVars, condVars>>

vars == <<cmds, tasks, tags, depends, incidence, thread_exe, verbose, jobs, pc,
          request, stack, visiting, expanded, toposort, wave, pos, func,
          future, inflight, outcome, started, passed, completed, exit_code, error,
          reported, signature, sig_args, compatible, frames, invoked, graphs,
          defs, finalized, magic, operation, sane_calls, mains, default,
          listed, conditions, skipped>>

----------------------------------------------------------------------------
(* Sequence helpers.                                                       *)

Last(s) == s[Len(s)]

Front(s) == SubSeq(s, 1, Len(s) - 1)

RECURSIVE Reverse(_)
Reverse(s) == IF s = <<>> THEN <<>> ELSE Append(Reverse(Tail(s)), Head(s))

RECURSIVE Flatten(_)
Flatten(ss) == IF ss = <<>> THEN <<>> ELSE Head(ss) \o Flatten(Tail(ss))

Range(s) == {s[i] : i \in 1..Len(s)}

Count(s, x) == Cardinality({i \in 1..Len(s) : s[i] = x})

----------------------------------------------------------------------------
(* Declaration stage: the state the decorators leave behind.               *)

\* props['depends'] of a function no decorator was applied to (get_props)
get_props == [resolved |-> FALSE, tag |-> <<>>, cmd |-> <<>>, task |-> <<>>]

\* a reference held by an edge: the function itself, or its name as a str
FnRef(f) == <<"fn", f>>
StrRef(name) == <<"str", name>>

\* one decorator application: @depends(on_cmd=), @depends(on_task=),
\* @depends(on_tag=) on a function, or @tag on a task.  Every function is
\* registered under its own name and the edges refer to it by that name (a
\* cycle can only be declared through names or tags); the args given with
\* on_cmd fit the signature of the command.
Decorators ==
    {d \in [deco : {"on_cmd"}, func : Funcs, ref : {StrRef(f) : f \in CmdFuncs},
             args : ArgTuples, tag : {None}] :
        is_signature_compatible(d.ref[2], d.args)}
    \cup [deco : {"on_task"}, func : Funcs, ref : {StrRef(f) : f \in TaskFuncs},
          args : {<<>>}, tag : {None}]
    \cup [deco : {"on_tag"}, func : Funcs, ref : {StrRef(None)},
          args : {<<>>}, tag : TagNames]
    \cup [deco : {"tag"}, func : TaskFuncs, ref : {StrRef(None)},
          args : {<<>>}, tag : TagNames]

\* depends_on_cmd / depends_on_task / depends_on_tag: append the edge
depends_decorator(dep, d) ==
    [dep EXCEPT
        ![d.func].cmd = IF d.deco = "on_cmd"
                        THEN Append(@, <<d.ref, d.args>>) ELSE @,
        ![d.func].task = IF d.deco = "on_task" THEN Append(@, d.ref) ELSE @,
        ![d.func].tag = IF d.deco = "on_tag" THEN Append(@, d.tag) ELSE @]

\* mutant: a tag without an entry reads as a list holding one task
tags_get_not_empty(tg, t) == IF t \in DOMAIN tg THEN tg[t] ELSE <<"b">>

\* self.tags.get(tag, [])
tags_get(tg, t) == IF t \in DOMAIN tg THEN tg[t] ELSE <<>>

\* tag_decorator: self.tags.setdefault(tag, []).append(func)
tag_decorator(tg, d) ==
    IF d.deco # "tag" THEN tg
    ELSE IF d.tag \in DOMAIN tg THEN [tg EXCEPT ![d.tag] = Append(@, d.func)]
    ELSE tg @@ (d.tag :> <<d.func>>)

RECURSIVE Declare(_, _, _)
Declare(ds, dep, tg) ==
    IF ds = <<>> THEN <<dep, tg>>
    ELSE Declare(Tail(ds), depends_decorator(dep, Head(ds)),
                 tag_decorator(tg, Head(ds)))

\* the list a decorator appends to; decorators that append to different
\* lists commute, so only one order of them is enumerated
ListOf(d) ==
    LET fi == CHOOSE i \in 1..4 : <<"a", "k", "b", "c">>[i] = d.func
        di == CHOOSE i \in 1..4 :
                <<"on_cmd", "on_task", "on_tag", "tag">>[i] = d.deco
    IN  IF d.deco = "tag" THEN 0 ELSE 4 * fi + di

\* the scripts of up to MaxDecorators decorators drawn from D
SeqsOf(D) ==
    UNION {{ds \in [1..n -> D] :
                \A i \in 1..(n - 1) : ListOf(ds[i]) <= ListOf(ds[i + 1])} :
           n \in 0..MaxDecorators}

DecoratorSeqs == SeqsOf(Decorators)

----------------------------------------------------------------------------
(* The edges of a function as update_graph and get_toposort walk them:     *)
(* the cmd edges, then the task edges, then the members of each tag.       *)

\* mutant: the loop over the tag edges is missing
TagItems_skipped(tagdeps, tg) == <<>>

RECURSIVE TagItems(_, _)
TagItems(tagdeps, tg) ==
    IF tagdeps = <<>> THEN <<>>
    ELSE [i \in 1..Len(tags_get(tg, Head(tagdeps))) |->
            <<tags_get(tg, Head(tagdeps))[i], <<>>>>]
         \o TagItems(Tail(tagdeps), tg)

\* the str kept by an edge that was never resolved is no key of incidence
Unresolved == <<"str", <<>>>>

Items(dep, tg, f) ==
    [i \in 1..Len(dep[f].cmd) |->
        IF dep[f].cmd[i][1][1] = "fn"
        THEN <<dep[f].cmd[i][1][2], dep[f].cmd[i][2]>> ELSE Unresolved]
    \o [i \in 1..Len(dep[f].task) |->
        IF dep[f].task[i][1] = "fn"
        THEN <<dep[f].task[i][2], <<>>>> ELSE Unresolved]
    \o TagItems(dep[f].tag, tg)

----------------------------------------------------------------------------
(* Reference resolution.                                                   *)

\* mutant: a name no task has is looked up among the cmds as well
resolve_str_task_any_kind(str_task) ==
    IF str_task \notin DOMAIN tasks
    THEN IF str_task \in DOMAIN cmds
         THEN [err |-> "none", fn |-> cmds[str_task]]
         ELSE [err |-> "no_task", fn |-> None]
    ELSE IF Len(tasks[str_task]) > 1 THEN [err |-> "ambiguous", fn |-> None]
    ELSE [err |-> "none", fn |-> tasks[str_task][1]]

\* mutant: of several tasks of that name the first one is taken
resolve_str_task_first(str_task) ==
    IF str_task \notin DOMAIN tasks THEN [err |-> "no_task", fn |-> None]
    ELSE [err |-> "none", fn |-> tasks[str_task][1]]

\* resolve_str_task: the task of that name, or the error that ends the run
resolve_str_task(str_task) ==
    IF str_task \notin DOMAIN tasks THEN [err |-> "no_task", fn |-> None]
    ELSE IF Len(tasks[str_task]) > 1 THEN [err |-> "ambiguous", fn |-> None]
    ELSE [err |-> "none", fn |-> tasks[str_task][1]]

\* resolve_str_cmd
resolve_str_cmd(str_cmd) ==
    IF str_cmd \notin DOMAIN cmds THEN [err |-> "no_cmd", fn |-> None]
    ELSE [err |-> "none", fn |-> cmds[str_cmd]]

\* the error resolve_depends exits with at the i-th task edge
task_error(props, i) ==
    IF props.task[i][1] = "str" THEN resolve_str_task(props.task[i][2]).err
    ELSE "none"

\* the error resolve_depends exits with at the i-th cmd edge
cmd_error(props, i) ==
    IF props.cmd[i][1][1] # "str" THEN "none"
    ELSE LET r == resolve_str_cmd(props.cmd[i][1][2])
         IN  IF r.err # "none" THEN r.err
             ELSE IF ~is_signature_compatible(r.fn, props.cmd[i][2])
             THEN "signature" ELSE "none"

\* the index at which a loop of resolve_depends exits (past the end: never)
FirstError(n, Err(_)) ==
    IF \E i \in 1..n : Err(i) # "none"
    THEN CHOOSE i \in 1..n : Err(i) # "none" /\ \A j \in 1..(i - 1) : Err(j) = "none"
    ELSE n + 1

\* the first loop of resolve_depends: the str task edges before the exit
\* are replaced by the task found
resolve_tasks(props) ==
    LET Err(i) == task_error(props, i)
        stop == FirstError(Len(props.task), Err)
    IN  [err |-> IF stop > Len(props.task) THEN "none" ELSE Err(stop),
         props |-> [props EXCEPT !.task =
            [i \in 1..Len(props.task) |->
                IF i < stop /\ props.task[i][1] = "str"
                THEN FnRef(resolve_str_task(props.task[i][2]).fn)
                ELSE props.task[i]]]]

\* the second loop of resolve_depends, on the cmd edges
resolve_cmds(props) ==
    LET Err(i) == cmd_error(props, i)
        stop == FirstError(Len(props.cmd), Err)
    IN  [err |-> IF stop > Len(props.cmd) THEN "none" ELSE Err(stop),
         props |-> [props EXCEPT !.cmd =
            [i \in 1..Len(props.cmd) |->
                IF i < stop /\ props.cmd[i][1][1] = "str"
                THEN <<FnRef(resolve_str_cmd(props.cmd[i][1][2]).fn),
                       props.cmd[i][2]>>
                ELSE props.cmd[i]]]]

\* resolve_depends(props): the props it leaves and the error it exits with
resolve_depends(props) ==
    IF props.resolved THEN [err |-> "none", props |-> props]
    ELSE LET t == resolve_tasks(props)
         IN  IF t.err # "none" THEN t
             ELSE LET c == resolve_cmds(t.props)
                  IN  IF c.err # "none" THEN c
                      ELSE [err |-> "none",
                            props |-> [c.props EXCEPT !.resolved = TRUE]]

----------------------------------------------------------------------------
(* Graph building: update_graph, one iteration of its loop per step.       *)

\* mutant: an item seen again has its count set to 1 instead of incremented
RECURSIVE visit_items_reset(_, _, _)
visit_items_reset(items, inc, stk) ==
    IF items = <<>> THEN [incidence |-> inc, stack |-> stk]
    ELSE IF Head(items) \in DOMAIN inc
    THEN visit_items_reset(Tail(items), [inc EXCEPT ![Head(items)] = 1], stk)
    ELSE visit_items_reset(Tail(items), inc @@ (Head(items) :> 1),
                           Append(stk, <<"visit", Head(items)>>))

\* mutant: an item seen again is counted and pushed again
RECURSIVE visit_items_push_again(_, _, _)
visit_items_push_again(items, inc, stk) ==
    IF items = <<>> THEN [incidence |-> inc, stack |-> stk]
    ELSE IF Head(items) \in DOMAIN inc
    THEN visit_items_push_again(Tail(items),
                                [inc EXCEPT ![Head(items)] = @ + 1],
                                Append(stk, <<"visit", Head(items)>>))
    ELSE visit_items_push_again(Tail(items), inc @@ (Head(items) :> 1),
                                Append(stk, <<"visit", Head(items)>>))

\* the three for loops of a visit: count the item, or push it the first time
RECURSIVE visit_items(_, _, _)
visit_items(items, inc, stk) ==
    IF items = <<>> THEN [incidence |-> inc, stack |-> stk]
    ELSE IF Head(items) \in DOMAIN inc
    THEN visit_items(Tail(items), [inc EXCEPT ![Head(items)] = @ + 1], stk)
    ELSE visit_items(Tail(items), inc @@ (Head(items) :> 1),
                     Append(stk, <<"visit", Head(items)>>))

\* mutant: the test for a loop never fires
in_visiting_never(item, vis) == FALSE

\* the test of a visit: the item is being visited further down the stack
in_visiting(item, vis) == item \in vis

\* get_trace: the sealed items of the stack, top first
RECURSIVE get_trace(_)
get_trace(stk) ==
    IF stk = <<>> THEN <<>>
    ELSE IF Last(stk)[1] # "seal" THEN get_trace(Front(stk))
    ELSE <<Last(stk)[2]>> \o get_trace(Front(stk))

\* report_loop: the chain of (name, args) it prints
report_loop(trace) ==
    Append(Reverse(trace), <<Last(trace)[1], Head(trace)[2]>>)

Exit(code, err, rep) ==
    /\ pc' = "exit"
    /\ exit_code' = code
    /\ error' = err
    /\ reported' = rep

\* run_tree is entered: update_graph sets up its stack
RunTree ==
    /\ pc = "run_tree"
    /\ pc' = "update_graph"
    /\ stack' = <<<<"visit", request>>>>
    /\ visiting' = {}
    /\ expanded' = <<>>
    /\ func' = request
    /\ UNCHANGED <<declVars, engineVars, request, toposort, wave, pos, future,
                   inflight, outcome, histVars, exitVars, outsideVars>>

\* the local state of update_graph: its stack and visiting set, the
\* incidence and depends it updates, and the error it exits with, if any
GraphState(stk, vis, inc, dep) ==
    [stack |-> stk, visiting |-> vis, incidence |-> inc, depends |-> dep,
     err |-> "none", reported |-> <<>>]

\* one iteration of the while loop of update_graph
update_graph_step(st, tg) ==
    LET op == Last(st.stack)[1]
        item == Last(st.stack)[2]
        popped == Front(st.stack)
    IN  IF op = "visit"
        THEN IF in_visiting(item, st.visiting)
             THEN [st EXCEPT !.stack = <<>>,
                             !.err = "loop",
                             !.reported = report_loop(get_trace(popped))]
             ELSE LET r == resolve_depends(st.depends[item[1]])
                      dep == [st.depends EXCEPT ![item[1]] = r.props]
                      v == visit_items(Items(dep, tg, item[1]), st.incidence,
                                       Append(popped, <<"seal", item>>))
                  IN  IF r.err # "none"
                      THEN [st EXCEPT !.visiting = @ \cup {item},
                                      !.depends = dep,
                                      !.stack = Append(popped, <<"seal", item>>),
                                      !.err = r.err]
                      ELSE [st EXCEPT !.visiting = @ \cup {item},
                                      !.depends = dep,
                                      !.stack = v.stack,
                                      !.incidence = v.incidence]
        ELSE [st EXCEPT !.visiting = @ \ {item}, !.stack = popped]

\* update_graph(func, args) as a whole: the state it returns or exits with
RECURSIVE update_graph_loop(_, _)
update_graph_loop(st, tg) ==
    IF st.stack = <<>> \/ st.err # "none" THEN st
    ELSE update_graph_loop(update_graph_step(st, tg), tg)

update_graph(root, inc, dep, tg) ==
    update_graph_loop(GraphState(<<<<"visit", root>>>>, {}, inc, dep), tg)

\* one iteration of the while loop of update_graph
UpdateGraph ==
    /\ pc = "update_graph"
    /\ stack # <<>>
    /\ \E st \in {update_graph_step(
                    GraphState(stack, visiting, incidence, depends), tags)} :
        /\ stack' = st.stack
        /\ visiting' = st.visiting
        /\ expanded' = IF Last(stack)[1] = "visit" /\ st.err = "none"
                       THEN Append(expanded, Last(stack)[2])
                       ELSE expanded
        /\ incidence' = st.incidence
        /\ depends' = st.depends
        /\ IF st.err # "none"
           THEN Exit(1, st.err, st.reported)
           ELSE UNCHANGED <<pc, exitVars>>
    /\ UNCHANGED <<cmds, tasks, tags, thread_exe, verbose, jobs, request,
                   execVars, histVars, outsideVars>>

----------------------------------------------------------------------------
(* Scheduling: get_toposort.                                               *)

\* mutant: an item joins the next roots when its count reaches 1 as well
RECURSIVE decrement_items_early(_, _, _)
decrement_items_early(items, inc, next_roots) ==
    IF items = <<>> THEN [err |-> "none", incidence |-> inc, next_roots |-> next_roots]
    ELSE IF Head(items) \notin DOMAIN inc
    THEN [err |-> "KeyError", incidence |-> inc, next_roots |-> next_roots]
    ELSE LET n == inc[Head(items)] - 1
         IN  decrement_items_early(Tail(items), [inc EXCEPT ![Head(items)] = n],
                IF n \in {0, 1} THEN Append(next_roots, Head(items))
                ELSE next_roots)

\* mutant: the decremented count is tested but not stored
RECURSIVE decrement_items_not_stored(_, _, _)
decrement_items_not_stored(items, inc, next_roots) ==
    IF items = <<>> THEN [err |-> "none", incidence |-> inc, next_roots |-> next_roots]
    ELSE IF Head(items) \notin DOMAIN inc
    THEN [err |-> "KeyError", incidence |-> inc, next_roots |-> next_roots]
    ELSE LET n == inc[Head(items)] - 1
         IN  decrement_items_not_stored(Tail(items), inc,
                IF n = 0 THEN Append(next_roots, Head(items)) ELSE next_roots)

\* mutant: an item whose count reaches zero is put in front of the next roots
RECURSIVE decrement_items_prepend(_, _, _)
decrement_items_prepend(items, inc, next_roots) ==
    IF items = <<>> THEN [err |-> "none", incidence |-> inc, next_roots |-> next_roots]
    ELSE IF Head(items) \notin DOMAIN inc
    THEN [err |-> "KeyError", incidence |-> inc, next_roots |-> next_roots]
    ELSE LET n == inc[Head(items)] - 1
         IN  decrement_items_prepend(Tail(items), [inc EXCEPT ![Head(items)] = n],
                IF n = 0 THEN <<Head(items)>> \o next_roots ELSE next_roots)

\* the inner loops of get_toposort over the items of the current roots:
\* decrement, and collect the items whose count reaches zero
RECURSIVE decrement_items(_, _, _)
decrement_items(items, inc, next_roots) ==
    IF items = <<>> THEN [err |-> "none", incidence |-> inc, next_roots |-> next_roots]
    ELSE IF Head(items) \notin DOMAIN inc
    THEN [err |-> "KeyError", incidence |-> inc, next_roots |-> next_roots]
    ELSE LET n == inc[Head(items)] - 1
         IN  decrement_items(Tail(items), [inc EXCEPT ![Head(items)] = n],
                IF n = 0 THEN Append(next_roots, Head(items)) ELSE next_roots)

\* the items of every root of a wave, in the order the for loops reach them
RECURSIVE roots_items(_, _, _)
roots_items(roots, dep, tg) ==
    IF roots = <<>> THEN <<>>
    ELSE Items(dep, tg, Head(roots)[1]) \o roots_items(Tail(roots), dep, tg)

\* the while loop of get_toposort: the waves, and its copy of the incidence
\* counts as the loop leaves it
RECURSIVE toposort_loop(_, _, _, _, _)
toposort_loop(roots, inc, acc, dep, tg) ==
    IF roots = <<>> THEN [err |-> "none", toposort |-> acc, incidence |-> inc]
    ELSE LET d == decrement_items(roots_items(roots, dep, tg), inc, <<>>)
         IN  IF d.err # "none"
             THEN [err |-> d.err, toposort |-> Append(acc, roots),
                   incidence |-> d.incidence]
             ELSE toposort_loop(d.next_roots, d.incidence, Append(acc, roots),
                                dep, tg)

\* mutant: toposort.reverse() is missing
get_toposort_not_reversed(root, inc, dep, tg) ==
    toposort_loop(<<root>>, inc, <<>>, dep, tg)

\* get_toposort(func, args): the waves, leaves first
get_toposort(root, inc, dep, tg) ==
    LET r == toposort_loop(<<root>>, inc, <<>>, dep, tg)
    IN  [err |-> r.err, toposort |-> Reverse(r.toposort),
         incidence |-> r.incidence]

\* the first two lines of run_tree as a whole: the incidence update_graph
\* leaves, the waves get_toposort returns, and the error either exits with
schedule(root, inc, dep, tg) ==
    LET g == update_graph(root, inc, dep, tg)
        none == [err |-> g.err, reported |-> g.reported,
                 incidence |-> g.incidence, toposort |-> <<>>]
    IN  IF g.err # "none" THEN none
        ELSE LET t == get_toposort(root, g.incidence, g.depends, tg)
             IN  [none EXCEPT !.err = t.err, !.toposort = t.toposort]

\* update_graph has emptied its stack: run_tree computes the schedule
GetToposort ==
    /\ pc = "update_graph"
    /\ stack = <<>>
    /\ LET r == get_toposort(request, incidence, depends, tags)
       IN  IF r.err # "none"
           THEN /\ Exit(1, r.err, <<>>)
                /\ UNCHANGED <<toposort, wave, pos>>
           ELSE /\ toposort' = r.toposort
                /\ wave' = 1
                /\ pos' = 1
                /\ pc' = "slice"
                /\ UNCHANGED exitVars
    /\ graphs' = Append(graphs, <<request, incidence>>)
    /\ UNCHANGED <<declVars, engineVars, request, buildVars, func, future,
                   inflight, outcome, histVars, sigVars, invokeVars,
                   stageVars, condVars>>

----------------------------------------------------------------------------
(* Execution: the loops of run_tree.                                       *)

\* the Node the loops of run_tree are at
Current == toposort[wave][pos]

\* toposort[-1]: the call made by run_tree itself after the waves
AtLast == wave = Len(toposort)

\* the positional arguments a call receives: func(*args) passes the
\* elements of args, func(args) passes the tuple itself as one argument
Unpacked(args) == [i \in 1..Len(args) |-> <<"str", args[i]>>]
Packed(args) == << <<"tuple">> \o args >>

\* a call with n positional arguments binds to the signature of f
Binds(f, n) ==
    /\ MandatoryArgCount(f) <= n
    /\ n <= MandatoryArgCount(f) + OptionalArgCount(f)

\* mutant: the failure is reported but the run is not ended
report_func_failed_no_exit(f) ==
    /\ error' = "failed"
    /\ reported' = <<f>>
    /\ UNCHANGED <<pc, exit_code>>

\* report_func_failed(func, e): names func and exits with status 1
report_func_failed(f) == Exit(1, "failed", <<f>>)

\* mutant: the loop over a slice_ is left after its first Node
Advance_leaves_wave ==
    IF AtLast
    THEN /\ pc' = "done"
         /\ UNCHANGED <<wave, pos>>
    ELSE /\ wave' = wave + 1
         /\ pos' = 1
         /\ UNCHANGED pc

\* the loops move on to the next Node, or run_tree returns
Advance ==
    IF AtLast
    THEN /\ pc' = "done"
         /\ UNCHANGED <<wave, pos>>
    ELSE IF pos < Len(toposort[wave])
    THEN /\ pos' = pos + 1
         /\ UNCHANGED <<pc, wave>>
    ELSE /\ wave' = wave + 1
         /\ pos' = 1
         /\ UNCHANGED pc

\* serial mode and the last call: func(*args) in the thread of run_tree
Call ==
    /\ pc = "slice"
    /\ outcome = "idle"
    /\ thread_exe = None \/ AtLast
    /\ func' = IF AtLast THEN toposort[Len(toposort)][1] ELSE Current
    /\ started' = Append(started, func')
    /\ passed' = Append(passed, Unpacked(func'[2]))
    /\ IF Binds(func'[1], Len(func'[2]))
       THEN /\ outcome' = "running"
            /\ UNCHANGED <<pc, exitVars>>
       ELSE /\ report_func_failed(func'[1])
            /\ UNCHANGED outcome
    /\ UNCHANGED <<declVars, engineVars, request, buildVars, toposort, wave,
                   pos, future, inflight, completed, outsideVars>>

\* the body returns, or raises and report_func_failed(func, e) is called
Return ==
    /\ pc = "slice"
    /\ outcome = "running"
    /\ future = None
    /\ \/ /\ completed' = Append(completed, func)
          /\ outcome' = "idle"
          /\ Advance
          /\ UNCHANGED exitVars
       \/ /\ report_func_failed(func[1])
          /\ UNCHANGED <<completed, outcome, wave, pos>>
    /\ UNCHANGED <<declVars, engineVars, request, buildVars, toposort, func,
                   future, inflight, started, passed, outsideVars>>

\* pool mode: the generator submits the next Node of slice_ when the for
\* loop asks for the next future
Submit ==
    /\ pc = "slice"
    /\ thread_exe # None
    /\ ~AtLast
    /\ future = None
    /\ future' = Current
    /\ inflight' = inflight \cup {Current}
    /\ outcome' = "submitted"
    /\ func' = IF verbose /\ pos = 1 THEN Last(toposort[wave]) ELSE func
    /\ UNCHANGED <<declVars, engineVars, pc, request, buildVars, toposort,
                   wave, pos, histVars, exitVars, outsideVars>>

\* a worker calls fn(args): the tuple is passed as one positional argument
WorkerCall ==
    /\ future # None
    /\ outcome = "submitted"
    /\ started' = Append(started, future)
    /\ passed' = Append(passed, Packed(future[2]))
    /\ IF Binds(future[1], 1)
       THEN /\ outcome' = "running"
            /\ UNCHANGED inflight
       ELSE /\ outcome' = "raised"
            /\ inflight' = inflight \ {future}
    /\ UNCHANGED <<declVars, engineVars, pc, request, buildVars, toposort,
                   wave, pos, func, future, completed, exitVars,
                   outsideVars>>

\* the body run by the worker returns or raises
WorkerReturn ==
    /\ future # None
    /\ outcome = "running"
    /\ inflight' = inflight \ {future}
    /\ \/ /\ outcome' = "ok"
          /\ completed' = Append(completed, future)
       \/ /\ outcome' = "raised"
          /\ UNCHANGED completed
    /\ UNCHANGED <<declVars, engineVars, pc, request, buildVars, toposort,
                   wave, pos, func, future, started, passed, exitVars,
                   outsideVars>>

\* future.result() returns, or raises and report_func_failed(func, e) is
\* called with the func of run_tree
FutureResult ==
    /\ pc = "slice"
    /\ future # None
    /\ outcome \in {"ok", "raised"}
    /\ future' = None
    /\ IF outcome = "ok"
       THEN /\ outcome' = "idle"
            /\ Advance
            /\ UNCHANGED exitVars
       ELSE /\ report_func_failed(func[1])
            /\ UNCHANGED <<outcome, wave, pos>>
    /\ UNCHANGED <<declVars, engineVars, request, buildVars, toposort, func,
                   inflight, histVars, outsideVars>>

----------------------------------------------------------------------------
(* The declared graph, as a relation on Nodes.                             *)

\* the cmd / task functions a reference denotes: the function itself, or
\* the only registered function of that name
CmdOf(ref) ==
    IF ref[1] = "fn" THEN {ref[2]}
    ELSE IF ref[2] \in DOMAIN cmds THEN {cmds[ref[2]]} ELSE {}

TaskOf(ref) ==
    IF ref[1] = "fn" THEN {ref[2]}
    ELSE IF ref[2] \in DOMAIN tasks /\ Len(tasks[ref[2]]) = 1
    THEN {tasks[ref[2]][1]} ELSE {}

\* the Nodes the edges of n lead to
DepsOf(dep, tg, n) ==
    UNION {{<<f, e[2]>> : f \in CmdOf(e[1])} : e \in Range(dep[n[1]].cmd)}
    \cup {<<f, <<>>>> : f \in UNION {TaskOf(r) : r \in Range(dep[n[1]].task)}}
    \cup {<<f, <<>>>> :
            f \in UNION {Range(tags_get(tg, t)) : t \in Range(dep[n[1]].tag)}}

RECURSIVE ReachOf(_, _, _)
ReachOf(dep, tg, S) ==
    LET T == S \cup UNION {DepsOf(dep, tg, n) : n \in S}
    IN  IF T = S THEN S ELSE ReachOf(dep, tg, T)

\* every declaration is on a function the request reaches, and every tag
\* with members is depended on: the rest of a script is never read
Trimmed(dep, tg, root) ==
    \E reach \in {ReachOf(dep, tg, {root})} :
        /\ \A f \in Funcs :
            dep[f] # get_props => \E n \in reach : n[1] = f
        /\ \A t \in DOMAIN tg : \E n \in reach : t \in Range(dep[n[1]].tag)

Deps(n) == DepsOf(depends, tags, n)

Reach == ReachOf(depends, tags, {request})

\* the Nodes n depends on, directly or not
Below(n) == IF Deps(n) = {} THEN {} ELSE ReachOf(depends, tags, Deps(n))

Cyclic == \E n \in Reach : Deps(n) # {} /\ n \in Below(n)

----------------------------------------------------------------------------
(* The specification: one request on a fresh engine.                       *)

\* the requests: a registered function with arguments that fit it
Requests == {n \in Nodes : is_signature_compatible(n[1], n[2])}

\* ThreadPoolExecutor(max_workers=n); ThreadPoolExecutor(max_workers=None)
\* is the pool without a bound of its own
Pool(n) == <<"pool", n>>
Unbounded == <<"pool">>

\* what get_cmdline_value(args, '--jobs', '-j') returns: the number given
\* (<<n>>) or None (<<>>)
NoJobs == <<>>
Jobs(n) == <<n>>

\* mutant: --jobs=1 builds a pool of one worker
setup_jobs_pool_of_one(j) ==
    IF j = NoJobs THEN None
    ELSE IF j[1] = 0 THEN Unbounded
    ELSE Pool(j[1])

\* setup_jobs: the value self.thread_exe is left with
setup_jobs(j) ==
    IF j = NoJobs THEN None
    ELSE IF j[1] = 1 THEN None
    ELSE IF j[1] = 0 THEN Unbounded
    ELSE Pool(j[1])

\* --jobs and --verbose (verbose is only read for logging in serial mode)
Modes == {<<NoJobs, FALSE>>, <<Jobs(2), FALSE>>, <<Jobs(2), TRUE>>}

\* read_arguments: what --list and a @cmd with its arguments leave in
\* self.operation
ListOperation == [mode |-> "list"]
CmdOperation(cmd, args) == [mode |-> "cmd", cmd |-> cmd, args |-> args]

\* cmd_decorator and task_decorator have registered every function
Registered ==
    /\ cmds = [f \in CmdFuncs |-> f]
    /\ tasks = [f \in TaskFuncs |-> <<f>>]

\* initialize_properties, read_arguments, and the request
FreshEngine(root, mode) ==
    /\ incidence = <<>>
    /\ jobs = mode[1]
    /\ thread_exe = setup_jobs(mode[1])
    /\ verbose = mode[2]
    /\ pc = "run_tree"
    /\ request = root
    /\ stack = <<>>
    /\ visiting = {}
    /\ expanded = <<>>
    /\ toposort = <<>>
    /\ wave = 0
    /\ pos = 0
    /\ func = root
    /\ future = None
    /\ inflight = {}
    /\ outcome = "idle"
    /\ started = <<>>
    /\ passed = <<>>
    /\ completed = <<>>
    /\ exit_code = None
    /\ error = "none"
    /\ reported = <<>>
    /\ signature = <<>>
    /\ sig_args = <<>>
    /\ compatible = <<>>
    /\ frames = <<>>
    /\ invoked = 0
    /\ graphs = <<>>
    /\ defs = <<>>
    /\ finalized = TRUE
    /\ magic = FALSE
    /\ operation = CmdOperation(root[1], root[2])
    /\ sane_calls = 1
    /\ mains = <<<<FALSE, "cmd">>>>
    /\ default = None
    /\ listed = {}
    /\ skipped = <<>>

\* no unit carries a condition
Unconditional == [n \in Nodes |-> <<>>]

Fresh(root, mode) == FreshEngine(root, mode) /\ conditions = Unconditional

\* a script has been read and a request is made under one of the modes
InitWith(modes) ==
    /\ Registered
    /\ \E ds \in DecoratorSeqs :
        \E d \in {Declare(ds, [f \in Funcs |-> get_props], <<>>)} :
            /\ depends = d[1]
            /\ tags = d[2]
            /\ \E root \in Requests :
                /\ Trimmed(d[1], d[2], root)
                /\ \E mode \in modes : Fresh(root, mode)

Init == InitWith(Modes)

Next ==
    \/ RunTree
    \/ UpdateGraph
    \/ GetToposort
    \/ Call
    \/ Return
    \/ Submit
    \/ WorkerCall
    \/ WorkerReturn
    \/ FutureResult

Spec == Init /\ [][Next]_vars

\* Scripts whose by-name edges need not resolve: a name may belong to no
\* unit, to a unit of the other kind, or to two tasks.

\* the order in which a script defines the functions: a decorator can only
\* be handed a function that is defined above it
DefinedBefore(g, f) ==
    LET Place(h) == CHOOSE i \in 1..4 : <<"b", "c", "k", "a">>[i] = h
    IN  Place(g) < Place(f)

\* the __name__ of the task functions: their own, or c is defined under
\* the name of b
TaskNamings == {<<"b", "c">>, <<"b", "b">>}

\* task_decorator: self.tasks.setdefault(func.__name__, []).append(func)
task_decorator(tsk, f, name) ==
    IF name \in DOMAIN tsk THEN [tsk EXCEPT ![name] = Append(@, f)]
    ELSE tsk @@ (name :> <<f>>)

NameRegistered(naming) ==
    /\ cmds = [f \in CmdFuncs |-> f]
    /\ tasks = task_decorator(task_decorator(<<>>, "b", naming[1]),
                              "c", naming[2])

\* the edges of these scripts: cmd edges by name (of a cmd, or of a task),
\* task edges by name (of a task, or of a cmd) or by function, tags
NameDecorators ==
    [deco : {"on_cmd"}, func : Funcs, ref : {StrRef("k")},
     args : {<<"x">>}, tag : {None}]
    \cup [deco : {"on_cmd"}, func : Funcs, ref : {StrRef("b")},
          args : {<<>>}, tag : {None}]
    \cup [deco : {"on_task"}, func : Funcs,
          ref : {StrRef("b"), StrRef("c"), StrRef("k")},
          args : {<<>>}, tag : {None}]
    \cup {d \in [deco : {"on_task"}, func : Funcs,
                 ref : {FnRef(f) : f \in TaskFuncs},
                 args : {<<>>}, tag : {None}] :
            DefinedBefore(d.ref[2], d.func)}
    \cup [deco : {"on_tag"}, func : Funcs, ref : {StrRef(None)},
          args : {<<>>}, tag : TagNames]
    \cup [deco : {"tag"}, func : TaskFuncs, ref : {StrRef(None)},
          args : {<<>>}, tag : TagNames]

NameInit ==
    \E naming \in TaskNamings :
        /\ NameRegistered(naming)
        /\ \E ds \in SeqsOf(NameDecorators) :
            \E d \in {Declare(ds, [f \in Funcs |-> get_props], <<>>)} :
                /\ depends = d[1]
                /\ tags = d[2]
                /\ \E root \in Requests :
                    /\ Trimmed(d[1], d[2], root)
                    /\ Fresh(root, <<NoJobs, FALSE>>)

\* a serial run
SerialNext ==
    \/ RunTree
    \/ UpdateGraph
    \/ GetToposort
    \/ Call
    \/ Return

NameSpec == NameInit /\ [][SerialNext]_vars

\* the same requests under every kind of --jobs option: none, 0 (a pool
\* without a bound), 1 (serial) and N > 1
JobsModes ==
    {<<NoJobs, FALSE>>, <<Jobs(0), FALSE>>, <<Jobs(1), FALSE>>,
     <<Jobs(2), FALSE>>, <<Jobs(3), FALSE>>}

JobsInit == InitWith(JobsModes)

JobsSpec == JobsInit /\ [][Next]_vars

\* Scripts whose cmd edges carry any argument tuple, fitting the signature
\* of the command or not, and refer to the command by name or by function.
ArgsDecorators ==
    [deco : {"on_cmd"}, func : Funcs, ref : {StrRef(f) : f \in CmdFuncs},
     args : ArgTuples, tag : {None}]
    \cup {d \in [deco : {"on_cmd"}, func : Funcs,
                 ref : {FnRef(f) : f \in CmdFuncs},
                 args : ArgTuples, tag : {None}] :
            DefinedBefore(d.ref[2], d.func)}
    \cup [deco : {"on_task"}, func : Funcs, ref : {StrRef(f) : f \in TaskFuncs},
          args : {<<>>}, tag : {None}]

ArgsInit ==
    /\ Registered
    /\ \E ds \in SeqsOf(ArgsDecorators) :
        \E d \in {Declare(ds, [f \in Funcs |-> get_props], <<>>)} :
            /\ depends = d[1]
            /\ tags = d[2]
            /\ \E root \in Requests :
                /\ Trimmed(d[1], d[2], root)
                /\ Fresh(root, <<NoJobs, FALSE>>)

ArgsSpec == ArgsInit /\ [][SerialNext]_vars

\* is_signature_compatible on its own, for any signature and any arguments.

\* a parameter of inspect.signature(func): arg.default is
\* inspect.Parameter.empty, or a default was given
ParamDefaults == {"empty", "default"}

Signatures == UNION {[1..n -> ParamDefaults] : n \in 0..MaxParams}

ArgLists == UNION {[1..n -> {"x", "y"}] : n \in 0..MaxArgs}

\* the for loop of is_signature_compatible: the two counts it ends with
RECURSIVE count_args(_, _, _)
count_args(params, mandatory_arg_count, optional_arg_count) ==
    IF params = <<>> THEN <<mandatory_arg_count, optional_arg_count>>
    ELSE IF Head(params) = "empty"
    THEN count_args(Tail(params), mandatory_arg_count + 1, optional_arg_count)
    ELSE count_args(Tail(params), mandatory_arg_count, optional_arg_count + 1)

\* mutant: the parameters with a default are not allowed for
wrong_number_of_args_no_optional(counts, n) == n < counts[1] \/ n > counts[1]

\* wrong_number_of_args, from the two counts and len(args)
wrong_number_of_args(counts, n) == n < counts[1] \/ n > counts[1] + counts[2]

\* is_signature_compatible(func, args), func having the parameters params
signature_compatible(params, given) ==
    ~wrong_number_of_args(count_args(params, 0, 0), Len(given))

\* a call of is_signature_compatible
IsSignatureCompatible ==
    /\ compatible = <<>>
    /\ compatible' = <<signature_compatible(signature, sig_args)>>
    /\ UNCHANGED <<cmds, tasks, tags, depends, incidence, thread_exe, verbose,
                   jobs, pc, request, buildVars, toposort, wave, pos,
                   func, future, inflight, outcome, started, passed,
                   completed, exit_code, error, reported, signature, sig_args,
                   frames, invoked, graphs, stageVars,
                   condVars>>

SigInit ==
    /\ Registered
    /\ depends = [f \in Funcs |-> get_props]
    /\ tags = <<>>
    /\ incidence = <<>>
    /\ jobs = NoJobs
    /\ thread_exe = None
    /\ verbose = FALSE
    /\ pc = "declared"
    /\ request = <<"a", <<>>>>
    /\ stack = <<>>
    /\ visiting = {}
    /\ expanded = <<>>
    /\ toposort = <<>>
    /\ wave = 0
    /\ pos = 0
    /\ func = request
    /\ future = None
    /\ inflight = {}
    /\ outcome = "idle"
    /\ started = <<>>
    /\ passed = <<>>
    /\ completed = <<>>
    /\ exit_code = None
    /\ error = "none"
    /\ reported = <<>>
    /\ signature \in Signatures
    /\ sig_args \in ArgLists
    /\ compatible = <<>>
    /\ frames = <<>>
    /\ invoked = 0
    /\ graphs = <<>>
    /\ defs = <<>>
    /\ finalized = TRUE
    /\ magic = FALSE
    /\ operation = CmdOperation("a", <<>>)
    /\ sane_calls = 1
    /\ mains = <<<<FALSE, "cmd">>>>
    /\ default = None
    /\ listed = {}
    /\ conditions = Unconditional
    /\ skipped = <<>>

SigNext == IsSignatureCompatible

SigSpec == SigInit /\ [][SigNext]_vars

\* Runs in which the body of a unit calls other units through their
\* decorated names: the wrapper calls run_tree again, on the same engine.

\* the edges of these scripts
InvokeDecorators ==
    [deco : {"on_cmd"}, func : Funcs, ref : {StrRef("k")},
     args : {<<"x">>}, tag : {None}]
    \cup [deco : {"on_task"}, func : Funcs, ref : {StrRef(f) : f \in TaskFuncs},
          args : {<<>>}, tag : {None}]

\* the calls a body makes: cmd(*args) with arguments that fit, task()
Invocations == {<<"k", <<"x">>>>, <<"b", <<>>>>, <<"c", <<>>>>}

\* the local variables of a run_tree call
Frame == [request |-> request, toposort |-> toposort, wave |-> wave,
          pos |-> pos, func |-> func]

\* the body being run calls the wrapper of a unit, which (finalized being
\* set) calls self.run_tree(func, args)
Invoke ==
    /\ pc = "slice"
    /\ outcome = "running"
    /\ thread_exe = None
    /\ invoked < MaxInvocations
    /\ \E X \in Invocations :
        /\ request' = X
        /\ func' = X
    /\ frames' = Append(frames, Frame)
    /\ invoked' = invoked + 1
    /\ pc' = "run_tree"
    /\ toposort' = <<>>
    /\ wave' = 0
    /\ pos' = 0
    /\ outcome' = "idle"
    /\ UNCHANGED <<declVars, engineVars, buildVars, future, inflight,
                   histVars, exitVars, sigVars, graphs, stageVars,
                   condVars>>

\* the run_tree called by the wrapper returns and the body goes on
Resume ==
    /\ pc = "done"
    /\ frames # <<>>
    /\ request' = Last(frames).request
    /\ toposort' = Last(frames).toposort
    /\ wave' = Last(frames).wave
    /\ pos' = Last(frames).pos
    /\ func' = Last(frames).func
    /\ frames' = Front(frames)
    /\ pc' = "slice"
    /\ outcome' = "running"
    /\ UNCHANGED <<declVars, engineVars, buildVars, future, inflight,
                   histVars, exitVars, sigVars, invoked, graphs, stageVars,
                   condVars>>

InvokeInit ==
    /\ Registered
    /\ \E ds \in SeqsOf(InvokeDecorators) :
        \E d \in {Declare(ds, [f \in Funcs |-> get_props], <<>>)} :
            /\ depends = d[1]
            /\ tags = d[2]
            /\ \E root \in Requests : Fresh(root, <<NoJobs, FALSE>>)

InvokeNext ==
    \/ RunTree
    \/ UpdateGraph
    \/ GetToposort
    \/ Call
    \/ Return
    \/ Invoke
    \/ Resume

InvokeSpec == InvokeInit /\ [][InvokeNext]_vars

\* The first stage on its own: a script applies @cmd and @task to the
\* functions it defines, one after the other.

\* the __name__ of the functions defined
DefNames == {"a", "b"}

\* the function object made by the i-th definition of the script; its
\* declaration site (context) is that definition
Fn(i) == <<"def", i>>

\* `other_, other_context = self.cmds[func.__name__]`: the registry holds
\* the function itself (self.cmds[func.__name__] = func), which cannot be
\* unpacked into two values
Unpacks(value) == value[1] = "pair"

\* cmd_decorator applied to a new function of that name
CmdDecorator ==
    /\ pc = "declaring"
    /\ Len(defs) < MaxDefs
    /\ \E name \in DefNames :
        /\ defs' = Append(defs, <<"cmd", name>>)
        /\ IF name \in DOMAIN cmds
           THEN /\ IF Unpacks(cmds[name])
                   THEN Exit(1, "unique", <<Fn(Len(defs) + 1), cmds[name][2]>>)
                   ELSE Exit(1, "TypeError", <<>>)
                /\ UNCHANGED cmds
           ELSE /\ cmds' = cmds @@ (name :> Fn(Len(defs) + 1))
                /\ UNCHANGED <<pc, exitVars>>
    /\ UNCHANGED <<tasks, tags, depends, engineVars, request, buildVars,
                   execVars, histVars, sigVars, invokeVars, graphs, finalized,
                   magic, operation, sane_calls, mains, default, listed,
                   condVars>>

\* task_decorator applied to a new function of that name
TaskDecorator ==
    /\ pc = "declaring"
    /\ Len(defs) < MaxDefs
    /\ \E name \in DefNames :
        /\ defs' = Append(defs, <<"task", name>>)
        /\ tasks' = task_decorator(tasks, Fn(Len(defs) + 1), name)
    /\ UNCHANGED <<cmds, tags, depends, engineVars, pc, request, buildVars,
                   execVars, histVars, exitVars, sigVars, invokeVars, graphs,
                   finalized, magic, operation, sane_calls, mains, default,
                   listed, condVars>>

\* initialize_properties: the registries are empty
DeclInit ==
    /\ cmds = <<>>
    /\ tasks = <<>>
    /\ tags = <<>>
    /\ depends = <<>>
    /\ incidence = <<>>
    /\ jobs = NoJobs
    /\ thread_exe = None
    /\ verbose = FALSE
    /\ pc = "declaring"
    /\ request = <<>>
    /\ stack = <<>>
    /\ visiting = {}
    /\ expanded = <<>>
    /\ toposort = <<>>
    /\ wave = 0
    /\ pos = 0
    /\ func = <<>>
    /\ future = None
    /\ inflight = {}
    /\ outcome = "idle"
    /\ started = <<>>
    /\ passed = <<>>
    /\ completed = <<>>
    /\ exit_code = 0
    /\ error = "none"
    /\ reported = <<>>
    /\ signature = <<>>
    /\ sig_args = <<>>
    /\ compatible = <<>>
    /\ frames = <<>>
    /\ invoked = 0
    /\ graphs = <<>>
    /\ defs = <<>>
    /\ finalized = FALSE
    /\ magic = FALSE
    /\ operation = CmdOperation(None, <<>>)
    /\ sane_calls = 0
    /\ mains = <<>>
    /\ default = None
    /\ listed = {}
    /\ conditions = <<>>
    /\ skipped = <<>>

DeclNext == CmdDecorator \/ TaskDecorator

DeclSpec == DeclInit /\ [][DeclNext]_vars

\* Serial runs over scripts of one decorator more, drawn from fewer edges:
\* a depends on k with either argument and on the tasks, k on the tasks, c
\* on b.
OrderDecorators ==
    [deco : {"on_cmd"}, func : {"a"}, ref : {StrRef("k")},
     args : {<<"x">>, <<"y">>}, tag : {None}]
    \cup [deco : {"on_task"}, func : {"a", "k"},
          ref : {StrRef(f) : f \in TaskFuncs}, args : {<<>>}, tag : {None}]
    \cup [deco : {"on_task"}, func : {"c"}, ref : {StrRef("b")},
          args : {<<>>}, tag : {None}]

OrderSeqs ==
    UNION {{ds \in [1..n -> OrderDecorators] :
                \A i \in 1..(n - 1) : ListOf(ds[i]) <= ListOf(ds[i + 1])} :
           n \in 0..(MaxDecorators + 1)}

OrderInit ==
    /\ Registered
    /\ \E ds \in OrderSeqs :
        \E d \in {Declare(ds, [f \in Funcs |-> get_props], <<>>)} :
            /\ depends = d[1]
            /\ tags = d[2]
            /\ \E root \in Requests :
                /\ Trimmed(d[1], d[2], root)
                /\ Fresh(root, <<NoJobs, FALSE>>)

OrderSpec == OrderInit /\ [][SerialNext]_vars

\* Units that carry conditions.  sane.py has no conditions (the tests of
\* src/tests/test_conditions.py are those of an earlier engine); liveness
\* is modelled after sections 4.4 a) and 4.5 of the specification, on top of
\* the graph building, scheduling and execution of sane.py.

\* what the predicates attached to a Node evaluate to when it is traversed;
\* the Nodes of one unit have the predicates of the unit, so as many values
ConditionLists == {<<>>, <<TRUE>>, <<FALSE>>}

\* liveness, bottom-up and memoized: the Nodes are taken in the order of
\* the schedule, in which the dependencies of a Node come before it
RECURSIVE liveness(_, _, _, _, _)
liveness(nodes, memo, dep, tg, cond) ==
    IF nodes = <<>> THEN memo
    ELSE LET n == Head(nodes)
             items == Items(dep, tg, n[1])
             self_active ==
                \/ items = <<>> /\ cond[n] = <<>>
                \/ \E i \in 1..Len(cond[n]) : cond[n][i]
             dep_active == \E i \in 1..Len(items) : memo[items[i]]
         IN  liveness(Tail(nodes), memo @@ (n :> (self_active \/ dep_active)),
                      dep, tg, cond)

\* the Node the loops of run_tree are about to call
NextNode == IF AtLast THEN toposort[Len(toposort)][1] ELSE Current

is_active(n) ==
    liveness(Flatten(toposort), <<>>, depends, tags, conditions)[n]

\* an active Node is called
LiveCall ==
    /\ pc = "slice"
    /\ outcome = "idle"
    /\ is_active(NextNode)
    /\ Call

\* an inactive Node is skipped, and logged as skipped
Skip ==
    /\ pc = "slice"
    /\ outcome = "idle"
    /\ thread_exe = None
    /\ ~is_active(NextNode)
    /\ skipped' = Append(skipped, NextNode)
    /\ Advance
    /\ UNCHANGED <<declVars, engineVars, request, buildVars, toposort, func,
                   future, inflight, outcome, histVars, exitVars, sigVars,
                   invokeVars, graphs, stageVars, conditions>>

CondInit ==
    /\ Registered
    /\ \E ds \in OrderSeqs :
        \E d \in {Declare(ds, [f \in Funcs |-> get_props], <<>>)} :
            /\ depends = d[1]
            /\ tags = d[2]
            /\ \E root \in Requests :
                /\ Trimmed(d[1], d[2], root)
                /\ FreshEngine(root, <<NoJobs, FALSE>>)
                /\ \E reach \in {ReachOf(d[1], d[2], {root})} :
                    \E cond \in [reach -> ConditionLists] :
                        /\ \A n1, n2 \in reach :
                            n1[1] = n2[1] => Len(cond[n1]) = Len(cond[n2])
                        /\ conditions =
                            [n \in Nodes |->
                                IF n \in reach THEN cond[n] ELSE <<>>]

CondNext ==
    \/ RunTree
    \/ UpdateGraph
    \/ GetToposort
    \/ LiveCall
    \/ Skip
    \/ Return

CondSpec == CondInit /\ [][CondNext]_vars

\* The second stage: the calls of main, by sane() in the script or in a
\* body and by the atexit callback, in one process, and what main runs.

\* the names a command line gives for the @cmd: none, those of the @cmds,
\* and one that no @cmd has
CmdNames == {None, "zz"} \cup CmdFuncs

\* the arguments a command line gives after --
CmdArgs == {<<>>, <<"x">>}

\* read_arguments: --list admits no other option, so no pool is set up
Operations ==
    {<<ListOperation, NoJobs>>}
    \cup {<<CmdOperation(c, as), j>> :
            c \in CmdNames, as \in CmdArgs,
            j \in {NoJobs, Jobs(0), Jobs(1), Jobs(2)}}

\* the edges of the scripts: in one a depends on k("x"), in the other
\* each @cmd depends on a @task of its own
ProcessScripts ==
    {<<[deco |-> "on_cmd", func |-> "a", ref |-> StrRef("k"),
        args |-> <<"x">>, tag |-> None]>>,
     <<[deco |-> "on_task", func |-> "a", ref |-> StrRef("b"),
        args |-> <<>>, tag |-> None],
       [deco |-> "on_task", func |-> "k", ref |-> StrRef("c"),
        args |-> <<>>, tag |-> None]>>}

\* the codes a script passes to sys.exit
ExitCodes == {0, 1}

\* mutant: the guard of main reads the exit code only
main_guard_exit_code_only(code, fin) == code # 0

\* `if self.exit_code or self.finalized: return`
main_guard(code, fin) == code # 0 \/ fin

\* mutant: the check is made whoever calls main
ensure_not_magic_and_parallel_any_caller(mg, exe) == exe # None

\* ensure_not_magic_and_parallel: TRUE when it ends the run
ensure_not_magic_and_parallel(mg, exe) == mg /\ exe # None

\* mutant: the @tasks are listed with the @cmds
list_cmds_and_tasks(c, t) == DOMAIN c \cup DOMAIN t

\* list_cmds: the names it prints
list_cmds(c, t) == DOMAIN c

\* main in 'cmd' mode: the @cmd is looked up and run_tree is called
MainCmd ==
    LET cmd == operation.cmd
        args == operation.args
    IN  IF cmd = None
        THEN IF default = None
             THEN /\ Exit(1, "no_default", <<>>)
                  /\ UNCHANGED <<request, func>>
             ELSE /\ request' = <<default, args>>
                  /\ func' = request'
                  /\ pc' = "run_tree"
                  /\ UNCHANGED exitVars
        ELSE IF cmd \notin DOMAIN cmds
             THEN /\ Exit(1, "no_cmd", <<>>)
                  /\ UNCHANGED <<request, func>>
             ELSE IF ~is_signature_compatible(cmds[cmd], args)
                  THEN /\ Exit(1, "wrong_args", <<cmds[cmd]>>)
                       /\ UNCHANGED <<request, func>>
                  ELSE /\ request' = <<cmds[cmd], args>>
                       /\ func' = request'
                       /\ pc' = "run_tree"
                       /\ UNCHANGED exitVars

\* main, called with self.magic being mg; after is the place the caller
\* goes on at when main returns at its guard.
\* mains records the call that went on to the operation, before the
\* operation finds its @cmd: a call that ends in "No @cmd named" is recorded.
Main(mg, after) ==
    IF main_guard(exit_code, finalized)
    THEN /\ pc' = after
         /\ UNCHANGED <<finalized, mains, request, func, exitVars>>
    ELSE /\ finalized' = TRUE
         /\ IF ensure_not_magic_and_parallel(mg, thread_exe)
            THEN /\ Exit(1, "magic_parallel", <<>>)
                 /\ UNCHANGED <<mains, request, func>>
            ELSE /\ mains' = Append(mains, <<mg, operation.mode>>)
                 /\ IF operation.mode = "list"
                    THEN /\ pc' = "list_cmds"
                         /\ UNCHANGED <<request, func, exitVars>>
                    ELSE MainCmd

processRest == <<declVars, incidence, thread_exe, verbose, jobs, buildVars,
                 toposort, wave, pos, future, inflight, outcome, histVars,
                 sigVars, invokeVars, graphs, defs, operation, default,
                 condVars>>

\* the script calls sane()
SaneCall ==
    /\ pc = "script"
    /\ sane_calls < MaxSaneCalls
    /\ sane_calls' = sane_calls + 1
    /\ Main(magic, "script")
    /\ UNCHANGED <<processRest, magic, listed>>

\* a body run by main calls sane()
BodySaneCall ==
    /\ pc = "slice"
    /\ outcome = "running"
    /\ thread_exe = None
    /\ sane_calls < MaxSaneCalls
    /\ sane_calls' = sane_calls + 1
    /\ Main(magic, pc)
    /\ UNCHANGED <<processRest, magic, listed>>

\* main in 'list' mode: list_cmds
ListCmds ==
    /\ pc = "list_cmds"
    /\ listed' = list_cmds(cmds, tasks)
    /\ pc' = "done"
    /\ UNCHANGED <<processRest, magic, finalized, sane_calls, mains, request,
                   func, exitVars>>

\* list_cmds or run_tree has returned to main, or run_tree to a wrapper the
\* script called, and that returns
MainReturn ==
    /\ pc = "done"
    /\ frames = <<>>
    /\ pc' = IF magic THEN "ended" ELSE "script"
    /\ UNCHANGED <<processRest, magic, finalized, sane_calls, mains, request,
                   func, listed, exitVars>>

\* main has called sys.exit(1): called by the script, the SystemExit ends
\* the script; called by atexit, the callback ends the process
MainExit ==
    /\ pc = "exit"
    /\ pc' = IF magic THEN "ended" ELSE "exiting"
    /\ UNCHANGED <<processRest, magic, finalized, sane_calls, mains, request,
                   func, listed, exitVars>>

\* the script calls sys.exit(code): the patched sys.exit saves the code
ScriptExit ==
    /\ pc = "script"
    /\ \E code \in ExitCodes : exit_code' = code
    /\ pc' = "exiting"
    /\ UNCHANGED <<processRest, magic, finalized, sane_calls, mains, request,
                   func, listed, error, reported>>

\* the script ends at its last line
ScriptEnd ==
    /\ pc = "script"
    /\ pc' = "exiting"
    /\ UNCHANGED <<processRest, magic, finalized, sane_calls, mains, request,
                   func, listed, exitVars>>

\* the script ends by an exception nothing catches: the interpreter prints
\* the traceback and shuts down; nothing of the engine's state is written
ScriptRaise ==
    /\ pc = "script"
    /\ pc' = "raising"
    /\ UNCHANGED <<processRest, magic, finalized, sane_calls, mains, request,
                   func, listed, exitVars>>

\* the atexit callback: self.magic = True; self.main()
AtExit ==
    /\ pc \in {"exiting", "raising"}
    /\ magic' = TRUE
    /\ sane_calls' = sane_calls + 1
    /\ Main(TRUE, "ended")
    /\ UNCHANGED <<processRest, listed>>

\* initialize_properties, read_arguments, run_on_exit, and the script's
\* decorators, for the command lines in ops
ProcessStart(ops) ==
    /\ Registered
    /\ \E ds \in ProcessScripts :
        \E d \in {Declare(ds, [f \in Funcs |-> get_props], <<>>)} :
            /\ depends = d[1]
            /\ tags = d[2]
    /\ incidence = <<>>
    /\ \E op \in ops :
        /\ operation = op[1]
        /\ jobs = op[2]
        /\ thread_exe = setup_jobs(op[2])
    /\ default \in {None} \cup CmdFuncs
    /\ verbose = FALSE
    /\ pc = "script"
    /\ request = <<"a", <<>>>>
    /\ stack = <<>>
    /\ visiting = {}
    /\ expanded = <<>>
    /\ toposort = <<>>
    /\ wave = 0
    /\ pos = 0
    /\ func = request
    /\ future = None
    /\ inflight = {}
    /\ outcome = "idle"
    /\ started = <<>>
    /\ passed = <<>>
    /\ completed = <<>>
    /\ exit_code = 0
    /\ error = "none"
    /\ reported = <<>>
    /\ signature = <<>>
    /\ sig_args = <<>>
    /\ compatible = <<>>
    /\ frames = <<>>
    /\ invoked = 0
    /\ graphs = <<>>
    /\ defs = <<>>
    /\ finalized = FALSE
    /\ magic = FALSE
    /\ sane_calls = 0
    /\ mains = <<>>
    /\ listed = {}
    /\ conditions = Unconditional
    /\ skipped = <<>>

ProcessInit == ProcessStart(Operations)

ProcessNext ==
    \/ SaneCall
    \/ BodySaneCall
    \/ ListCmds
    \/ MainReturn
    \/ MainExit
    \/ ScriptExit
    \/ ScriptEnd
    \/ ScriptRaise
    \/ AtExit
    \/ RunTree
    \/ UpdateGraph
    \/ GetToposort
    \/ Call
    \/ Return
    \/ Submit
    \/ WorkerCall
    \/ WorkerReturn
    \/ FutureResult

ProcessSpec == ProcessInit /\ [][ProcessNext]_vars

\* The wrappers that @cmd and @task return, called by the script itself
\* before and after the second stage, and by bodies during it.

\* mutant: the wrapper calls run_tree whatever finalized is
calls_func_never(fin) == FALSE

\* the wrappers' `if not self.finalized`: the function itself is called
calls_func(fin) == ~fin

\* the calls a script makes
ScriptCalls == Invocations \cup {<<"a", <<>>>>}

\* the script calls the wrapper of a unit: before main has run it calls
\* func(*args), afterwards self.run_tree(func, args)
UnitCall ==
    /\ pc = "script"
    /\ invoked < MaxInvocations
    /\ invoked' = invoked + 1
    /\ \E X \in ScriptCalls :
        IF calls_func(finalized)
        THEN /\ func' = X
             /\ started' = Append(started, X)
             /\ passed' = Append(passed, Unpacked(X[2]))
             /\ pc' = "body"
             /\ UNCHANGED <<request, toposort, wave, pos, outcome>>
        ELSE /\ request' = X
             /\ func' = X
             /\ pc' = "run_tree"
             /\ toposort' = <<>>
             /\ wave' = 0
             /\ pos' = 0
             /\ outcome' = "idle"
             /\ UNCHANGED <<started, passed>>
    /\ UNCHANGED <<declVars, engineVars, buildVars, future, inflight,
                   completed, exitVars, sigVars, frames, graphs, stageVars,
                   condVars>>

\* the body the script called returns, or raises and ends the script
BodyReturn ==
    /\ pc = "body"
    /\ \/ /\ completed' = Append(completed, func)
          /\ pc' = "script"
       \/ /\ pc' = "raising"
          /\ UNCHANGED completed
    /\ UNCHANGED <<declVars, engineVars, request, buildVars, execVars, started,
                   passed, exitVars, outsideVars>>

\* the command line names a, serial
WrapperInit == ProcessStart({<<CmdOperation("a", <<>>), NoJobs>>})

WrapperNext ==
    \/ UnitCall
    \/ BodyReturn
    \/ SaneCall
    \/ MainReturn
    \/ MainExit
    \/ ScriptEnd
    \/ AtExit
    \/ RunTree
    \/ UpdateGraph
    \/ GetToposort
    \/ Call
    \/ Return
    \/ Invoke
    \/ Resume

WrapperSpec == WrapperInit /\ [][WrapperNext]_vars

\* An engine that serves several requests, one after the other: main runs
\* the request of the command line, and the script then calls wrappers.

\* the edges of these scripts: duplicates, a cycle between b and c
ReuseDecorators ==
    [deco : {"on_task"}, func : {"a", "b", "c", "k"},
     ref : {StrRef("b"), StrRef("c")}, args : {<<>>}, tag : {None}]
    \cup [deco : {"on_cmd"}, func : {"a"}, ref : {StrRef("k")},
          args : {<<"x">>}, tag : {None}]

ReuseInit ==
    /\ Registered
    /\ \E ds \in SeqsOf(ReuseDecorators) :
        \E d \in {Declare(ds, [f \in Funcs |-> get_props], <<>>)} :
            /\ depends = d[1]
            /\ tags = d[2]
            /\ \E root \in Requests : Fresh(root, <<NoJobs, FALSE>>)

ReuseNext ==
    \/ RunTree
    \/ UpdateGraph
    \/ GetToposort
    \/ Call
    \/ Return
    \/ MainReturn
    \/ UnitCall

ReuseSpec == ReuseInit /\ [][ReuseNext]_vars

\* The first two lines of run_tree on their own: update_graph, one
\* iteration of its loop per step, and get_toposort.  The code is
\* sequential, so an iteration that can be made is made.

\* the edges of these scripts: task edges among a, b and c, with duplicates
\* and cycles, through the request or not
BuildDecorators ==
    [deco : {"on_task"}, func : {"a", "b", "c"},
     ref : {StrRef("b"), StrRef("c")}, args : {<<>>}, tag : {None}]

BuildRequests == {<<"a", <<>>>>, <<"b", <<>>>>}

BuildInit ==
    /\ Registered
    /\ \E ds \in SeqsOf(BuildDecorators) :
        \E d \in {Declare(ds, [f \in Funcs |-> get_props], <<>>)} :
            /\ depends = d[1]
            /\ tags = d[2]
            /\ \E root \in BuildRequests : Fresh(root, <<NoJobs, FALSE>>)

BuildNext ==
    \/ RunTree
    \/ UpdateGraph
    \/ GetToposort

BuildSpec ==
    /\ BuildInit
    /\ [][BuildNext]_vars
    /\ WF_vars(RunTree)
    /\ WF_vars(UpdateGraph)

----------------------------------------------------------------------------
(* Vocabulary of the properties.                                           *)

Serial == thread_exe = None

\* the occurrences of edges into n from the Nodes in R, each named by its
\* source, its list and its place in the list
InEdgesFrom(R, n) ==
    UNION {
        {<<p, "cmd", i, 0>> : i \in {i \in 1..Len(depends[p[1]].cmd) :
            /\ n[1] \in CmdOf(depends[p[1]].cmd[i][1])
            /\ n[2] = depends[p[1]].cmd[i][2]}}
        \cup {<<p, "task", i, 0>> : i \in {i \in 1..Len(depends[p[1]].task) :
            /\ n[1] \in TaskOf(depends[p[1]].task[i])
            /\ n[2] = <<>>}}
        \cup UNION {{<<p, "tag", i, j>> :
                        j \in {j \in 1..Len(tags_get(tags, depends[p[1]].tag[i])) :
                            /\ tags_get(tags, depends[p[1]].tag[i])[j] = n[1]
                            /\ n[2] = <<>>}} :
                    i \in 1..Len(depends[p[1]].tag)}
        : p \in R}

InEdges(n) == InEdgesFrom(Reach, n)

Max(S) == CHOOSE x \in S : \A y \in S : y <= x

\* the length of the longest chain of edges from the request down to n,
\* R being the Nodes the request reaches
RECURSIVE DistIn(_, _)
DistIn(R, n) ==
    IF n = request THEN 0
    ELSE 1 + Max({DistIn(R, p) : p \in {q \in R : n \in Deps(q)}})

Dist(n) == DistIn(Reach, n)

\* the leaf-first decomposition: each wave takes every Node not yet placed
\* whose dependencies are all placed
RECURSIVE LeafWaves(_)
LeafWaves(placed) ==
    LET w == {n \in Reach \ placed : Deps(n) \subseteq placed}
    IN  IF w = {} THEN <<>> ELSE <<w>> \o LeafWaves(placed \cup w)

\* A -> {B, C}, B -> D, C -> D
Diamond(A, B, C, D) ==
    /\ Cardinality({A, B, C, D}) = 4
    /\ Deps(A) = {B, C}
    /\ Deps(B) = {D}
    /\ Deps(C) = {D}
    /\ Deps(D) = {}

\* an operation has raised: in a worker, or report_func_failed was reached
Raised == outcome = "raised" \/ error = "failed"

----------------------------------------------------------------------------
(* The claims.                                                             *)

\* C1: a serial request on a fresh engine over an acyclic graph, in which
\* every operation succeeds (run_tree returns), has invoked every Node the
\* request reaches exactly once and no other Node.
C1_ReachableExactlyOnce ==
    (pc = "done" /\ Serial) =>
        \/ \A n \in Nodes : Count(started, n) = IF n \in Reach THEN 1 ELSE 0
        \/ Cyclic

C1_Witness ==
    /\ pc = "done"
    /\ Serial
    /\ ~Cyclic
    /\ Cardinality(Reach) >= 3
    /\ \E n \in Reach : Cardinality(InEdges(n)) >= 2

\* C2: over an acyclic graph, in serial and in pool mode, every Node whose
\* operation has been called has all the Nodes it directly depends on
\* completed (completed only grows, so they completed before the call).
C2_DependenciesFirst ==
    \/ \A i \in 1..Len(started) : Deps(started[i]) \subseteq Range(completed)
    \/ Cyclic

C2_Witness ==
    /\ ~Serial
    /\ ~Cyclic
    /\ \E i \in 1..Len(started) :
        /\ Deps(started[i]) # {}
        /\ started[i] # request
        /\ Deps(started[i]) \subseteq Range(completed)

\* C3: if the Nodes the request reaches contain a cycle, through the request
\* or not, no operation is ever invoked, run_tree does not get past graph
\* building, and the exit is the dependency-loop error with status 1.
C3_AnyCycleIsAnError ==
    (pc \notin {"run_tree", "update_graph"} /\ Cyclic) =>
        /\ started = <<>>
        /\ pc = "exit"
        /\ error = "loop"
        /\ exit_code = 1

\* C4: if the request itself lies on a cycle (through name edges or through
\* a tag it carries), no operation is ever invoked, scheduling is never
\* reached, and the run exits with status 1.
C4_CycleThroughRoot ==
    (pc # "run_tree" /\ request \in Below(request)) =>
        /\ started = <<>>
        /\ pc \in {"update_graph", "exit"}
        /\ ~(pc = "update_graph" /\ stack = <<>>)
        /\ pc = "exit" => exit_code = 1

C4_Witness ==
    /\ pc = "exit"
    /\ exit_code = 1
    /\ request[1] \in Range(tags_get(tags, "g"))
    /\ request \in Below(request)
    /\ \E n \in Reach : request \notin Below(n)
    /\ started = <<>>

\* C5: once an operation has raised, no further operation is called, what
\* completed stays completed and the only step left is the exit with status
\* 1; a failure before the last wave leaves the request's own operation
\* uncalled.
C5_AbortOnFailure ==
    /\ [](error = "failed" => (pc = "exit" /\ exit_code = 1))
    /\ []((Raised /\ Last(started) # request) =>
            request \notin Range(started))
    /\ [][Raised => /\ Raised'
                    /\ started' = started
                    /\ completed' = completed
                    /\ pc' = "exit"
                    /\ exit_code' = 1]_vars
    /\ []((Raised /\ pc # "exit") => ENABLED FutureResult)

C5_Witness ==
    /\ error = "failed"
    /\ ~Serial
    /\ completed # <<>>
    /\ request \notin Range(started)

\* C6: the failure report names the function whose operation raised (the
\* last one called), in serial and in pool mode.
C6_ReportNamesFailingNode ==
    error = "failed" => reported = <<Last(started)[1]>>

\* C7: over an acyclic graph, a Node that two or more edge occurrences lead
\* to is called at most once, exactly once when run_tree returns, and has
\* completed before any Node that depends on it is called.
C7_SharedNodeOnce ==
    started # <<>> =>
        \/ \A R \in {Reach} : \A n \in R :
            Cardinality(InEdgesFrom(R, n)) >= 2 =>
                /\ Count(started, n) <= 1
                /\ pc = "done" => Count(started, n) = 1
                /\ \A p \in Range(started) :
                    n \in Deps(p) => n \in Range(completed)
        \/ Cyclic

C7_Witness ==
    /\ pc = "done"
    /\ \E A, B, C, D \in Reach :
        /\ Diamond(A, B, C, D)
        /\ Count(started, D) = 1
        /\ Cardinality(InEdges(D)) = 2

\* C8: in a run that succeeds, a command reached with two different argument
\* tuples is called once per tuple, receiving exactly the elements of that
\* tuple as its positional arguments, and each Node the command depends on is
\* called once and has completed before either call.
C8_OneNodePerTuple ==
    (started # <<>> /\ ~Cyclic) =>
        \A n \in Reach :
            (n[1] \in CmdFuncs /\ \E m \in Reach : m[1] = n[1] /\ m[2] # n[2]) =>
                /\ pc = "done" => Count(started, n) = 1
                /\ \A i \in 1..Len(started) :
                    started[i] = n => passed[i] = Unpacked(n[2])
                /\ \A d \in Deps(n) :
                    /\ Count(started, d) <= 1
                    /\ n \in Range(started) => d \in Range(completed)

\* C9 as claimed: the waves of get_toposort are the leaf-first
\* decomposition (wave 0 holds every reachable Node without dependencies).
C9_LeafFirstWaves ==
    (toposort # <<>> /\ ~Cyclic) =>
        LET lw == LeafWaves({})
        IN  /\ Len(toposort) = Len(lw)
            /\ \A k \in 1..Len(lw) : Range(toposort[k]) = lw[k]

\* C9 as amended: over an acyclic graph every reachable Node is in exactly
\* one wave, once, namely the wave that lies as many waves before the last
\* one as the longest chain of edges from the request down to the Node is
\* long; so the dependencies of a Node lie in earlier waves, and a Node
\* without dependencies is in wave 0 only when it ends a longest chain.
C9_RootDistanceWaves ==
    (toposort # <<>> /\ ~Cyclic) =>
        \A R \in {Reach} :
            /\ \A n \in R : \A d \in {DistIn(R, n)} : \A w \in 1..Len(toposort) :
                Count(toposort[w], n) = IF w = Len(toposort) - d THEN 1 ELSE 0
            /\ \A w \in 1..Len(toposort) : Range(toposort[w]) \subseteq R

C9_Witness ==
    /\ toposort # <<>>
    /\ \E A, B, C, D \in Reach :
        /\ Diamond(A, B, C, D)
        /\ Len(toposort) = 3
        /\ Range(toposort[1]) = {D}
        /\ Range(toposort[2]) = {B, C}
        /\ Range(toposort[3]) = {A}

\* C10: the last wave of every schedule is the request alone, the request
\* is in no other wave, and its operation is the last one run_tree calls.
C10_RootLast ==
    toposort # <<>> =>
        /\ Last(toposort) = <<request>>
        /\ \A w \in 1..(Len(toposort) - 1) : request \notin Range(toposort[w])
        /\ \A i \in 1..Len(started) : started[i] = request => i = Len(started)
        /\ pc = "done" => Last(started) = request

C10_Witness ==
    /\ pc = "done"
    /\ Len(toposort) >= 3
    /\ Last(started) = request
    /\ Len(started) >= 3

\* the state in which get_toposort has just returned its schedule
Scheduled == toposort # <<>> /\ started = <<>> /\ inflight = {}

\* C11: over an acyclic graph, no Node of a wave of the schedule depends,
\* directly or through other Nodes, on another Node of the same wave.
C11_WaveIndependent ==
    Scheduled =>
        \/ \A w \in 1..Len(toposort) : \A i, j \in 1..Len(toposort[w]) :
            i # j => toposort[w][j] \notin Below(toposort[w][i])
        \/ Cyclic

C11_Witness ==
    /\ Scheduled
    /\ ~Cyclic
    /\ Len(toposort) >= 3
    /\ \E w \in 1..Len(toposort) :
        /\ Len(toposort[w]) >= 2
        /\ \E i \in 1..Len(toposort[w]) : Deps(toposort[w][i]) # {}

\* the Nodes handed to the pool or called so far
Submitted == inflight \cup Range(started)

\* C12: with a pool, a Node of a wave is submitted or called only when
\* every Node of every earlier wave has returned.
C12_WaveBarrier ==
    (~Serial /\ toposort # <<>>) =>
        \A w \in 2..Len(toposort) :
            (\E n \in Range(toposort[w]) : n \in Submitted) =>
                \A v \in 1..(w - 1) : Range(toposort[v]) \subseteq Range(completed)

C12_Witness ==
    /\ ~Serial
    /\ \E w \in 2..(Len(toposort) - 1) :
        /\ Len(toposort[w - 1]) >= 2
        /\ \E n \in Range(toposort[w]) : n \in Range(started)

\* C13: with a pool, over an acyclic graph, every call receives exactly the
\* elements of the Node's argument tuple as its positional arguments, as
\* in a serial run, and the members of a tag a Node depends on have all
\* completed when the Node is called.
C13_PoolAsSerial ==
    (~Serial /\ ~Cyclic) =>
        \A i \in 1..Len(started) :
            /\ passed[i] = Unpacked(started[i][2])
            /\ \A t \in Range(depends[started[i][1]].tag) :
                \A m \in Range(tags_get(tags, t)) : <<m, <<>>>> \in Range(completed)

\* C14: with a pool, when run_tree waits for a future of a wave, every Node
\* of that wave has been submitted.
C14_WaveSubmittedBeforeWait ==
    (~Serial /\ pc = "slice" /\ future # None) =>
        Range(toposort[wave]) \subseteq Submitted

\* the operations being executed: those in the pool, and the one called in
\* the thread of run_tree
Executing ==
    inflight \cup (IF outcome = "running" /\ future = None THEN {func} ELSE {})

\* C15: without --jobs and with --jobs=1 no pool exists, nothing is ever
\* handed to a pool and at most one operation is being executed; with
\* --jobs=N, N >= 2, at most N operations are being executed.
C15_JobsBound ==
    /\ (jobs = NoJobs \/ jobs = Jobs(1)) =>
        /\ thread_exe = None
        /\ inflight = {}
        /\ future = None
        /\ Cardinality(Executing) <= 1
    /\ (jobs # NoJobs /\ jobs[1] >= 2) =>
        /\ thread_exe = Pool(jobs[1])
        /\ Cardinality(Executing) <= jobs[1]

C15_Witness ==
    /\ jobs = Jobs(3)
    /\ pc = "slice"
    /\ Len(toposort[wave]) >= 2
    /\ pos = 2
    /\ Cardinality(Executing) = 1

\* C16: in every run, failing or not, serial or with a pool, no Node is
\* called twice (so no two calls of a Node overlap), and once an operation
\* has raised no call is made at all.
C16_AtMostOnce ==
    /\ [](\A i, j \in 1..Len(started) : started[i] = started[j] => i = j)
    /\ [](\A n \in Executing : Count(started, n) <= 1)
    /\ [][Raised => started' = started]_vars

C16_Witness ==
    /\ Raised
    /\ ~Serial
    /\ Len(started) >= 3

\* the members of the tags of a list of tag edges, in the order of the list
RECURSIVE Members(_, _)
Members(tagdeps, tg) ==
    IF tagdeps = <<>> THEN <<>>
    ELSE tags_get(tg, Head(tagdeps)) \o Members(Tail(tagdeps), tg)

\* the declarations with every tag edge replaced by one explicit task edge
\* per member of the tag
ExplicitTasks(dep, tg) ==
    [f \in DOMAIN dep |->
        LET ms == Members(dep[f].tag, tg)
        IN  [dep[f] EXCEPT !.tag = <<>>,
                           !.task = @ \o [i \in 1..Len(ms) |-> FnRef(ms[i])]]]

\* a request is about to be made: nothing of the script has been resolved
Declared == pc = "run_tree"

\* C17: a script whose units depend on tags and the script that names the
\* members of those tags as explicit task dependencies instead give the same
\* Nodes with the same incidence counts, the same waves and the same error,
\* if any, for every request.
C17_TagAsExplicitTasks ==
    (Declared /\ \E f \in Funcs : depends[f].tag # <<>>) =>
        \A byTag \in {schedule(request, incidence, depends, tags)} :
        \A byTask \in {schedule(request, incidence,
                                ExplicitTasks(depends, tags), tags)} :
            /\ byTag.incidence = byTask.incidence
            /\ byTag.toposort = byTask.toposort
            /\ byTag.err = byTask.err
            /\ byTag.reported = byTask.reported

C17_Witness ==
    /\ Declared
    /\ Len(Members(depends[request[1]].tag, tags)) >= 2
    /\ Len(schedule(request, incidence, depends, tags).toposort) >= 2

\* the declarations without the edges to tags no @tag has filled
WithoutEmptyTags(dep, tg) ==
    LET Filled(t) == t \in DOMAIN tg
    IN  [f \in DOMAIN dep |-> [dep[f] EXCEPT !.tag = SelectSeq(@, Filled)]]

\* C18: an edge to a tag without members is no error and changes nothing:
\* the Nodes, their incidence counts, the waves and the error, if any, are
\* those of the script without that edge.
C18_EmptyTagIsNoEdge ==
    (Declared /\ \E f \in Funcs : \E t \in Range(depends[f].tag) :
                    t \notin DOMAIN tags) =>
        \A with \in {schedule(request, incidence, depends, tags)} :
        \A without \in {schedule(request, incidence,
                                 WithoutEmptyTags(depends, tags), tags)} :
            /\ with.incidence = without.incidence
            /\ with.toposort = without.toposort
            /\ with.err = without.err
            /\ with.reported = without.reported

C18_Witness ==
    /\ Declared
    /\ "g" \in Range(depends[request[1]].tag)
    /\ "g" \notin DOMAIN tags
    /\ \E with \in {schedule(request, incidence, depends, tags)} :
        /\ with.err = "none"
        /\ Len(with.toposort) >= 2
        /\ Last(with.toposort) = <<request>>

\* the registered task functions and cmd functions
RegisteredTasks == UNION {Range(tasks[n]) : n \in DOMAIN tasks}
RegisteredCmds == {cmds[n] : n \in DOMAIN cmds}

\* f has an edge by a name that no unit of the required kind has
UnknownName(f) ==
    \/ \E r \in Range(depends[f].task) : r[1] = "str" /\ r[2] \notin DOMAIN tasks
    \/ \E e \in Range(depends[f].cmd) :
        e[1][1] = "str" /\ e[1][2] \notin DOMAIN cmds

\* C19: when scheduling starts, every task and cmd edge of every unit the
\* request reaches holds a registered function of its kind; and if a unit
\* the request reaches has an edge by a name that no unit of the required
\* kind has, no operation is ever called, scheduling is never reached and
\* the run exits with status 1.
C19_NamesResolvedBeforeScheduling ==
    /\ toposort # <<>> =>
        \A n \in Reach :
            /\ depends[n[1]].resolved
            /\ \A r \in Range(depends[n[1]].task) :
                r[1] = "fn" /\ r[2] \in RegisteredTasks
            /\ \A e \in Range(depends[n[1]].cmd) :
                e[1][1] = "fn" /\ e[1][2] \in RegisteredCmds
    /\ (\E n \in Reach : UnknownName(n[1])) =>
        /\ started = <<>>
        /\ toposort = <<>>
        /\ pc \in {"run_tree", "update_graph", "exit"}
        /\ ~(pc = "update_graph" /\ stack = <<>>)
        /\ pc = "exit" => exit_code = 1

C19_Witness ==
    /\ pc = "exit"
    /\ exit_code = 1
    /\ error \in {"no_task", "no_cmd"}
    /\ started = <<>>
    /\ ~UnknownName(request[1])
    /\ \E n \in Reach : UnknownName(n[1])

\* the names a by-name task edge can hold
TaskRefNames == {"b", "c", "k"}

\* two or more registered tasks have that name
SharedName(name) == name \in DOMAIN tasks /\ Len(tasks[name]) >= 2

\* f has a task edge by a name that two or more tasks have
AmbiguousName(f) ==
    \E r \in Range(depends[f].task) : r[1] = "str" /\ SharedName(r[2])

C20_SharedNameUsable ==
    /\ pc = "done"
    /\ SharedName("b")
    /\ FnRef("b") \in Range(depends[request[1]].task)
    /\ "g" \in Range(depends[request[1]].tag)
    /\ <<"c", <<>>>> \in Range(completed)

\* f has a cmd edge whose argument tuple does not fit the signature of the
\* command it refers to
BadArgs(f) ==
    \E e \in Range(depends[f].cmd) : \E c \in CmdOf(e[1]) :
        ~is_signature_compatible(c, e[2])

\* C21: if a unit the request reaches has a cmd edge, by name or by
\* function, whose argument tuple does not fit the signature of the command,
\* no operation is ever called, scheduling is never reached and the run exits
\* with status 1.
C21_ArityCheckedAtResolution ==
    (\E n \in Reach : BadArgs(n[1])) =>
        /\ started = <<>>
        /\ toposort = <<>>
        /\ pc = "exit" => exit_code = 1

\* C21, the part that holds: the same when the edge refers to the command
\* by name.
C21_ArityCheckedByName ==
    (\E n \in Reach : \E e \in Range(depends[n[1]].cmd) :
        /\ e[1][1] = "str"
        /\ e[1][2] \in DOMAIN cmds
        /\ ~is_signature_compatible(cmds[e[1][2]], e[2])) =>
        /\ started = <<>>
        /\ toposort = <<>>
        /\ pc = "exit" => exit_code = 1

\* the parameters of the signature without / with a default
Mandatory == {i \in 1..Len(signature) : signature[i] = "empty"}
Optional == {i \in 1..Len(signature) : signature[i] = "default"}

\* C22: is_signature_compatible accepts exactly the argument lists whose
\* length is at least the number of parameters without a default and at most
\* the number of all parameters (those without plus those with a default).
C22_AcceptsLengthInRange ==
    compatible # <<>> =>
        compatible[1] =
            (/\ Cardinality(Mandatory) <= Len(sig_args)
             /\ Len(sig_args) <= Cardinality(Mandatory) + Cardinality(Optional))

C22_Witness ==
    /\ compatible = <<TRUE>>
    /\ Cardinality(Mandatory) >= 1
    /\ Cardinality(Optional) >= 2
    /\ Len(sig_args) = Cardinality(Mandatory) + 1

\* C23: resolve_depends on a unit it has completed for returns the edge
\* lists as they are and no error; and when update_graph builds the graph of
\* the request it has just built the graph of, the incidence counts are those
\* of the first build.
C23_ResolutionIdempotent ==
    /\ \A f \in Funcs :
        depends[f].resolved =>
            resolve_depends(depends[f]) = [err |-> "none", props |-> depends[f]]
    /\ \A i \in 1..(Len(graphs) - 1) :
        graphs[i + 1][1] = graphs[i][1] => graphs[i + 1][2] = graphs[i][2]

\* C23, the part that holds: resolve_depends on a resolved unit changes
\* nothing and exits with no error, and no step changes the edges of a
\* resolved unit.
C23_ResolvedIsFinal ==
    /\ [](\A f \in Funcs :
            depends[f].resolved =>
                resolve_depends(depends[f]) =
                    [err |-> "none", props |-> depends[f]])
    /\ [][\A f \in Funcs :
            depends[f].resolved => depends'[f] = depends[f]]_vars

\* C24: over an acyclic graph, the schedule of every request made on an
\* engine, the first or a later one, is the schedule a fresh engine (empty
\* incidence) computes for that request from the declarations, and holds
\* every Node the request reaches.
C24_SchedulePerRequest ==
    toposort # <<>> =>
        \/ /\ toposort = schedule(request, <<>>, depends, tags).toposort
           /\ Reach \subseteq Range(Flatten(toposort))
        \/ Cyclic

\* C24, the part that holds: the same for the first request made on an
\* engine.
C24_FirstRequestAsFresh ==
    (toposort # <<>> /\ Len(graphs) = 1) =>
        \/ /\ toposort = schedule(request, <<>>, depends, tags).toposort
           /\ Reach \subseteq Range(Flatten(toposort))
        \/ Cyclic

\* the body of the unit a body has called is being run, and the call was
\* not made from the unit's own dependency tree
InvokedBody ==
    /\ frames # <<>>
    /\ pc = "slice"
    /\ outcome = "running"
    /\ func = request
    /\ \A i \in 1..Len(frames) :
        frames[i].func \notin Below(request) \cup {request}

\* C25: over an acyclic graph, when the body of a unit that a body has
\* called is running, every Node the unit depends on, directly or not, has
\* completed; and when the run_tree called for it returns to the caller,
\* the unit's own operation is the last one that completed.
C25_InvokedAfterItsTree ==
    /\ InvokedBody => (Below(request) \subseteq Range(completed) \/ Cyclic)
    /\ (pc = "done" /\ frames # <<>>) => Last(completed) = request

\* C25, the part that holds: the same when no Node the called unit depends
\* on has been counted by an earlier request on the engine.
C25_InvokedOutsideOuterGraph ==
    /\ (InvokedBody /\ Below(request) \cap DOMAIN graphs[Len(graphs) - 1][2] = {})
        => (Below(request) \subseteq Range(completed) \/ Cyclic)
    /\ (pc = "done" /\ frames # <<>>) => Last(completed) = request

\* the definitions of the script decorated with @cmd / @task under a name
CmdDefs(name) == {i \in 1..Len(defs) : defs[i] = <<"cmd", name>>}
TaskDefs(name) == {i \in 1..Len(defs) : defs[i] = <<"task", name>>}

Min(S) == CHOOSE x \in S : \A y \in S : x <= y

\* the registries hold the first @cmd of every name and every @task
RegistryKept ==
    /\ DOMAIN cmds = {name \in DefNames : CmdDefs(name) # {}}
    /\ \A name \in DOMAIN cmds : cmds[name] = Fn(Min(CmdDefs(name)))
    /\ DOMAIN tasks = {name \in DefNames : TaskDefs(name) # {}}
    /\ \A name \in DOMAIN tasks :
        /\ Len(tasks[name]) = Cardinality(TaskDefs(name))
        /\ \A i, j \in 1..Len(tasks[name]) :
            i < j => tasks[name][i][2] < tasks[name][j][2]
        /\ \A i \in 1..Len(tasks[name]) : tasks[name][i][2] \in TaskDefs(name)

\* C26: the registry holds one @cmd per name, the first declared, and every
\* @task declared, whatever the names; a second @cmd of a name ends the
\* script with status 1 and the '@cmd names must be unique' error showing
\* the sites of both declarations.
C26_CmdNamesUnique ==
    /\ RegistryKept
    /\ \A name \in DefNames :
        Cardinality(CmdDefs(name)) >= 2 =>
            /\ pc = "exit"
            /\ exit_code = 1
            /\ error = "unique"
            /\ reported = <<Fn(Len(defs)), Fn(Min(CmdDefs(name)))>>

\* C26, the part that holds: the registries, and a second @cmd of a name
\* ends the script with status 1.
C26_DuplicateCmdEndsScript ==
    /\ RegistryKept
    /\ \A name \in DefNames :
        Cardinality(CmdDefs(name)) >= 2 =>
            /\ pc = "exit"
            /\ exit_code = 1
            /\ defs[Len(defs)] = <<"cmd", name>>
            /\ Cardinality(CmdDefs(name)) = 2

\* the depth of the subtree of n: the longest chain of edges below it
RECURSIVE Height(_)
Height(n) == IF Deps(n) = {} THEN 0 ELSE 1 + Max({Height(d) : d \in Deps(n)})

\* the place of the last occurrence of x in s
LastOcc(s, x) == Max({k \in 1..Len(s) : s[k] = x})

IsPrefix(s, t) == Len(s) <= Len(t) /\ s = SubSeq(t, 1, Len(s))

\* C27 as claimed: in a serial run the calls follow the waves in order, and
\* inside a wave a Node with a deeper subtree comes before a Node with a
\* shallower one.
C27_DeeperSubtreeFirst ==
    (Serial /\ toposort # <<>> /\ ~Cyclic) =>
        /\ IsPrefix(started, Flatten(toposort))
        /\ \A w \in 1..Len(toposort) : \A i, j \in 1..Len(toposort[w]) :
            i < j => Height(toposort[w][i]) >= Height(toposort[w][j])

\* C27 as amended: in a serial run over an acyclic graph the calls follow
\* the waves in order and each wave in the order of its list, which is fixed
\* by the declarations: the Nodes of a wave are in the order of their last
\* edge occurrence in the edge lists (cmd, task, tag) of the next wave's
\* Nodes, taken in that wave's order.
C27_ReleaseOrder ==
    (Serial /\ toposort # <<>> /\ ~Cyclic) =>
        /\ IsPrefix(started, Flatten(toposort))
        /\ pc = "done" => started = Flatten(toposort)
        /\ toposort = schedule(request, <<>>, depends, tags).toposort
        /\ \A w \in 1..(Len(toposort) - 1) :
            \A its \in {roots_items(toposort[w + 1], depends, tags)} :
                \A i, j \in 1..Len(toposort[w]) :
                    i < j => LastOcc(its, toposort[w][i])
                                < LastOcc(its, toposort[w][j])

\* A -> B, C, E in that order, B -> D, C -> D: the calls are D, B, C, E, A
C27_Witness ==
    /\ pc = "done"
    /\ Len(started) = 5
    /\ \E A \in {started[5]}, B \in {started[2]}, C \in {started[3]},
          D \in {started[1]}, E \in {started[4]} :
        /\ Cardinality({A, B, C, D, E}) = 5
        /\ Items(depends, tags, A[1]) = <<B, C, E>>
        /\ Deps(B) = {D}
        /\ Deps(C) = {D}
        /\ Deps(D) = {}
        /\ Deps(E) = {}

\* a Node is active: it has no dependencies and no conditions, or one of
\* its conditions is true, or one of the Nodes it depends on is active
RECURSIVE Active(_)
Active(n) ==
    \/ Deps(n) = {} /\ conditions[n] = <<>>
    \/ TRUE \in Range(conditions[n])
    \/ \E d \in Deps(n) : Active(d)

C29_LoopChain ==
    error = "loop" =>
        /\ Len(reported) >= 2
        /\ reported[1] = request
        /\ \A i \in 1..(Len(reported) - 1) : reported[i + 1] \in Deps(reported[i])
        /\ Last(reported) \in Range(Front(reported))

\* C29, the part that holds: the chain without its final entry is the path
\* from the request to the Node from which the loop closes, the loop closes
\* at the request, and the final entry names the unit of the request.
C29_LoopPath ==
    error = "loop" =>
        /\ Len(reported) >= 2
        /\ reported[1] = request
        /\ \A i \in 1..(Len(reported) - 2) : reported[i + 1] \in Deps(reported[i])
        /\ request \in Deps(reported[Len(reported) - 1])
        /\ Last(reported)[1] = request[1]
        /\ Last(reported)[2] = reported[Len(reported) - 1][2]

\* C30: in a process, of all the calls of main - by sane() in the script or
\* in a body, and by the atexit callback - at most one goes on to the
\* listing or the root request, and a call made once main has run changes
\* nothing: it issues nothing, and leaves the exit code and the error alone.
C30_MainAtMostOnce ==
    /\ [](Len(mains) <= 1)
    /\ [](mains # <<>> => finalized)
    /\ [][finalized => (finalized' /\ mains' = mains)]_vars
    /\ [][(finalized /\ sane_calls' # sane_calls) =>
            (exit_code' = exit_code /\ error' = error)]_vars

C30_Witness ==
    /\ pc = "ended"
    /\ sane_calls = MaxSaneCalls + 1
    /\ Len(mains) = 1
    /\ mains[1][1] = FALSE
    /\ started # <<>>
    /\ exit_code = 0

\* C31: the atexit callback runs the second stage only after a script that
\* ended successfully: when the script ended by sys.exit or exit with a code
\* other than zero, or by an exception nothing caught, the callback issues
\* neither the listing nor the root request.
C31_MagicOnlyAfterSuccess ==
    [][((pc = "raising" \/ (pc = "exiting" /\ exit_code # 0)) /\ magic')
        => mains' = mains]_vars

\* the part of C31 that holds: after an exit with a code other than zero
\* the callback issues nothing
C31_NothingAfterNonZeroExit ==
    [][(pc = "exiting" /\ exit_code # 0 /\ magic') => mains' = mains]_vars

\* C32: under --list no operation of a @cmd or @task is ever invoked and no
\* graph is built: main prints the names of the registered @cmds, and of no
\* @task, reports no error and leaves the exit code at zero.
C32_ListOnlyEnumeratesCmds ==
    operation.mode = "list" =>
        /\ started = <<>>
        /\ graphs = <<>>
        /\ incidence = <<>>
        /\ error = "none"
        /\ listed \in {{}, DOMAIN cmds}
        /\ listed \cap DOMAIN tasks = {}
        /\ pc = "list_cmds" => (listed = {} /\ exit_code = 0)
        /\ pc = "done" => (listed = DOMAIN cmds /\ exit_code = 0)
        /\ (pc = "ended" /\ mains # <<>>) => listed = DOMAIN cmds

C32_Witness ==
    /\ operation.mode = "list"
    /\ pc = "ended"
    /\ mains = <<<<TRUE, "list">>>>
    /\ listed = DOMAIN cmds
    /\ exit_code = 0

\* C33: when the atexit callback enters main with a worker pool configured
\* (--jobs other than 1) and main gets past its guard, the run is refused:
\* an error, exit status 1, no graph built and no operation invoked, then
\* or later; when the script calls sane() with the same configuration, main
\* goes on to its operation and that error is never given.
C33_MagicWithPoolRefused ==
    /\ [][(pc \in {"exiting", "raising"} /\ magic' /\ thread_exe # None
            /\ ~main_guard(exit_code, finalized))
          => (/\ pc' = "exit"
              /\ error' = "magic_parallel"
              /\ exit_code' = 1
              /\ mains' = mains)]_vars
    /\ [](error = "magic_parallel" =>
            (/\ magic
             /\ exit_code = 1
             /\ mains = <<>>
             /\ started = <<>>
             /\ graphs = <<>>
             /\ incidence = <<>>))
    /\ [][(pc = "script" /\ sane_calls' # sane_calls /\ thread_exe # None
            /\ ~main_guard(exit_code, finalized))
          => (/\ mains' = Append(mains, <<FALSE, operation.mode>>)
              /\ error' # "magic_parallel")]_vars

C33_Witness ==
    /\ error = "magic_parallel"
    /\ thread_exe # None
    /\ pc = "ended"
    /\ \E s \in {"a", "k"} : operation.cmd = s

\* C34: a call of a decorated @cmd or @task made by the script before the
\* engine is finalized calls the function itself with the given arguments:
\* nothing is resolved, no graph is built, no incidence count changes and no
\* other operation is called until that body has returned; the same call
\* made once the engine is finalized issues a run request for that unit.
C34_WrapperBeforeAndAfterFinalized ==
    /\ [][(pc = "script" /\ invoked' # invoked /\ ~finalized)
          => (/\ pc' = "body"
              /\ Len(started') = Len(started) + 1
              /\ Last(started') = func'
              /\ func' \in ScriptCalls
              /\ Last(passed') = Unpacked(func'[2])
              /\ <<depends, incidence, graphs, request>>' =
                    <<depends, incidence, graphs, request>>)]_vars
    /\ [][pc = "body"
          => (/\ started' = started
              /\ <<depends, incidence, graphs>>' = <<depends, incidence, graphs>>
              /\ completed' \in {completed, Append(completed, func)})]_vars
    /\ [][(pc = "script" /\ invoked' # invoked /\ finalized)
          => (/\ pc' = "run_tree"
              /\ request' \in ScriptCalls
              /\ started' = started)]_vars

C34_Witness ==
    /\ pc = "script"
    /\ ~finalized
    /\ completed = <<<<"a", <<>>>>>>
    /\ depends["a"] # get_props
    /\ graphs = <<>>

\* C35: when update_graph has returned for the request of a fresh engine
\* whose graph has no cycle, the Nodes that carry an incidence count are the
\* Nodes the request reaches other than itself, the count of each is the
\* number of edge occurrences into it from the Nodes the request reaches,
\* and each Node the request reaches was expanded exactly once (looked at
\* before the first operation is called).
C35_IncidenceIsInDegree ==
    (graphs # <<>> /\ started = <<>> /\ ~Cyclic) =>
        \A inc \in {graphs[1][2]} :
            /\ DOMAIN inc = Reach \ {request}
            /\ \A n \in DOMAIN inc : inc[n] = Cardinality(InEdges(n))
            /\ Range(expanded) = Reach
            /\ \A n \in Reach : Count(expanded, n) = 1

C35_Witness ==
    /\ graphs # <<>>
    /\ started = <<>>
    /\ ~Cyclic
    /\ \E n \in Reach : Cardinality(InEdges(n)) = 2
    /\ \E n \in Reach : Cardinality(InEdges(n)) = 1 /\ Dist(n) = 2

\* C36: once update_graph has returned for a request, no step of the
\* scheduling and execution of that request - a call of a unit by a body
\* and what that call does included - changes the registries, the edge lists
\* of a resolved unit, or the stored incidence counts.
C36_ReadOnlyAfterConstruction ==
    [][graphs # <<>> =>
        /\ <<cmds, tasks, tags>>' = <<cmds, tasks, tags>>
        /\ \A f \in Funcs : depends[f].resolved => depends'[f] = depends[f]
        /\ incidence' = incidence]_vars

\* C36, the part that holds: the same for the registries and the resolved
\* edge lists, and for the incidence counts as long as no body has called a
\* unit.
C36_ReadOnlyUntilInvoked ==
    [][graphs # <<>> =>
        /\ <<cmds, tasks, tags>>' = <<cmds, tasks, tags>>
        /\ \A f \in Funcs : depends[f].resolved => depends'[f] = depends[f]
        /\ invoked' = 0 => incidence' = incidence]_vars

\* the @cmd main will run as the root: the one named, else the @default
RootCmd ==
    IF operation.cmd = None THEN default
    ELSE IF operation.cmd \in DOMAIN cmds THEN cmds[operation.cmd]
    ELSE None

\* the arguments of the command line do not fit the @cmd main will run
ArgsDoNotFit ==
    /\ operation.mode = "cmd"
    /\ RootCmd # None
    /\ ~is_signature_compatible(RootCmd, operation.args)

\* C37: when the number of arguments of the command line does not fit the
\* @cmd that main will run as the root, named or @default, no operation is
\* ever invoked, and the call of main that gets past its guard ends in exit
\* status 1.
C37_ArgsCheckedBeforeRun ==
    ArgsDoNotFit =>
        /\ started = <<>>
        /\ mains # <<>> => (pc \in {"exit", "exiting", "ended"} /\ exit_code = 1)

\* C37, the part that holds: the same when the @cmd is named on the command
\* line.
C37_NamedArgsCheckedBeforeRun ==
    (ArgsDoNotFit /\ operation.cmd # None) =>
        /\ started = <<>>
        /\ graphs = <<>>
        /\ mains # <<>> =>
            (/\ pc \in {"exit", "exiting", "ended"}
             /\ exit_code = 1
             /\ error \in {"wrong_args", "magic_parallel"})

\* C38: whenever update_graph has returned - for the first request of an
\* engine or a later one, over graphs with duplicate edges and with cycles
\* that were not reported - get_toposort ends without an error, leaves no
\* count of its copy of the incidence below zero (counts only go down, so
\* none was below zero on the way), and puts no Node in its waves twice.
C38_NoCountBelowZero ==
    (pc = "update_graph" /\ stack = <<>>) =>
        \A r \in {get_toposort(request, incidence, depends, tags)} :
            /\ r.err = "none"
            /\ \A n \in DOMAIN r.incidence : r.incidence[n] >= 0
            /\ \A n \in Range(Flatten(r.toposort)) :
                Count(Flatten(r.toposort), n) = 1

C38_Witness ==
    /\ pc = "update_graph"
    /\ stack = <<>>
    /\ graphs # <<>>
    /\ Cyclic
    /\ \E n \in DOMAIN incidence : incidence[n] >= 2
    /\ Len(get_toposort(request, incidence, depends, tags).toposort) >= 2

\* the number of times update_graph has pushed n for expansion so far: the
\* entries waiting on its stack, the expansions made, and the entry whose
\* visit reported the loop
Pushes(n) ==
    Count(stack, <<"visit", n>>) + Count(expanded, n)
    + (IF error = "loop" /\ Last(reported) = n THEN 1 ELSE 0)

\* update_graph has returned or has ended the run
Built == pc = "exit" \/ (pc = "update_graph" /\ stack = <<>>)

\* C39: for every script, with a cycle or not, graph building and scheduling
\* end: update_graph comes to an empty stack or to an exit (the report of a
\* loop, or of a name that does not resolve); it expands no Node twice and
\* pushes no Node more than twice (only the request more than once), and
\* its stack never holds more than two entries per Node; and get_toposort,
\* called on what update_graph leaves, returns, with at most one wave per
\* Node the request reaches.
C39_BuildAndScheduleTerminate ==
    /\ (pc = "run_tree") ~> Built
    /\ [](\A n \in Nodes :
            /\ Count(expanded, n) <= 1
            /\ Pushes(n) <= (IF n = request THEN 2 ELSE 1))
    /\ [](Len(stack) <= 2 * Cardinality(Nodes))
    /\ []((pc = "update_graph" /\ stack = <<>>) =>
            \A r \in {get_toposort(request, incidence, depends, tags)} :
                /\ r.err = "none"
                /\ Len(r.toposort) <= Cardinality(Reach)
                /\ Len(Flatten(r.toposort)) <= Cardinality(Reach))
    /\ [](pc = "exit" => error = "loop")

C39_Witness ==
    /\ pc = "slice"
    /\ Cyclic
    /\ Len(toposort) = 2
    /\ Len(expanded) = 3
    /\ \E n \in DOMAIN incidence : incidence[n] = 2

====
